---- MODULE Spec2Model ----
(***************************************************************************)
(* Rate-limited, paginated request core of the moy-sklad API client.       *)
(*                                                                         *)
(*  SpecGate  : ApiClient.request with its concurrency gate                *)
(*              (src/src/api-client/token-bucket.ts 416-474; the gate of   *)
(*              src/src/moysklad.ts 544-618 is the same code).             *)
(*  SpecGateFair: SpecGate with the event loop running: a timer that is    *)
(*              due fires, a queued continuation runs, an HTTP call made   *)
(*              is settled.                                                *)
(*  SpecPager : the batch paginator: batchGet of src/src/moysklad.ts       *)
(*              746-795 (its own loop) and getChunks with the batchGet     *)
(*              built on it of src/src/api-client/token-bucket.ts 588-650, *)
(*              run one after the other on the same unchanged collection.  *)
(*              A page fetch may fail at any point.                        *)
(*  SpecLoop  : the same paginators on a client constructed with any       *)
(*              concurrencyLimit, zero and negative included.              *)
(*  SpecBare  : the same paginators on an endpoint whose payloads may come *)
(*              without a context.                                         *)
(*  SpecStale : the same paginators on a collection that changes between   *)
(*              the pages.                                                 *)
(*  SpecBucket: the class TokenBucket of src/src/api-client/token-bucket.ts*)
(*              2-82: consume() calls behind its promise mutex, sync() and *)
(*              the clock.                                                 *)
(*  SpecBudget: TokenBucket with a small capacity and consume() calls only;*)
(*              SpecBudgetFair adds the running event loop.                *)
(*  SpecInst  : several ApiClient instances of src/src/moysklad.ts or of   *)
(*              src/src/api-client/token-bucket.ts side by side, each with *)
(*              its own rateLimitState object.                             *)
(*  SpecExec  : one request() call after the other, run alone, on the      *)
(*              client of src/src/moysklad.ts 561-618 (rate limiter 464-   *)
(*              539, Retry-After) or of src/src/api-client/token-bucket.ts *)
(*              433-474 (fixed 429 delay), with the clock, the quota       *)
(*              headers of the responses and transport errors.             *)
(*                                                                         *)
(*  SpecQuota : the constructor of the client of src/src/moysklad.ts       *)
(*              (286-324, 420-421) computing the request weight and the    *)
(*              threshold from options.auth and the date.                  *)
(*                                                                         *)
(* JavaScript scheduling is modelled as it is: code runs to its next       *)
(* await; continuations of already settled promises run from a FIFO        *)
(* microtask queue (micro); timers and network completions are macrotasks, *)
(* which start only when the microtask queue is empty.                     *)
(***************************************************************************)
EXTENDS Integers, Sequences, FiniteSets, TLC

\* ------------------------------------------------------------------ bounds
\* request() calls made on the one client
NReq == 4
\* 429 answers the server gives in one behaviour
Max429 == 2
\* 429 answers the server gives to the calls passing the gate together
Gate429 == 3

\* request() calls made one after the other on the client that runs alone
NCalls == 2
\* the clock stops being advanced by hand at this time (ms)
MaxNow == 11000
\* the last calendar day reached, in days since 1 January 2026
MaxDay == 340
\* ApiClient instances living side by side
NClients == 2
\* consume() calls made on the one TokenBucket
NCallers == 3
\* rounds of `while (true)` one consume() call is followed through
MaxRounds == 25

\* rows of the backing collection
MaxSize == 7
\* batchGetOptions.limit passed by the caller
MaxLimit == 3
\* batchGetOptions.concurrencyLimit passed by the caller
MaxConc == 6
\* iterations a group loop that does not end is followed through
MaxPulls == 12

\* ------------------------------------------------------- program constants
\* private parallelRequestLimit = 3 (token-bucket.ts)
parallelRequestLimit == 3
\* private parallelRequestLimit = 5 (moysklad.ts)
parallelRequestLimitM == 5
\* the defaults of batchGetOptions
DefaultLimit == 1000
DefaultExpandLimit == 100
DefaultConcurrencyLimit == 3

VARIABLES
  pc,            \* position of each request() call
  concurrent,    \* rateLimitState.concurrent
  micro,         \* FIFO queue of pending continuations (microtasks)
  lastResponse,  \* ApiClient.lastResponse, written by the afterResponse hook
  outcome,       \* how each finished request() call ended
  served429      \* number of 429 answers given so far

VARIABLES
  requested,     \* options.batchGetOptions merged over the defaults
  hasExpand,     \* the hasExpand argument of batchGet / getChunks
  totalSize,     \* number of rows of the backing collection (rows 0..totalSize-1)
  withContext,   \* whether the payloads of the endpoint carry a context
  mOptions,      \* this.batchGetOptions of the moysklad.ts client
  tOptions,      \* this.batchGetOptions of the token-bucket.ts client
  \* batchGet of moysklad.ts
  bgPc,          \* position: idle, page0, group, done
  bgI,           \* loop variable i
  bgPromises,    \* batchPromises of the current group, with their results
  bgInflight,    \* offsets of the fetcher calls not yet settled
  bgAllRows,     \* allRows
  bgMeta,        \* size and context read from page 0
  bgResult,      \* the value batchGet returned
  bgFetches,     \* the fetcher calls made, in order
  \* getChunks of token-bucket.ts and its consumer
  gcPc,          \* position: start, page0, yield0, group, yield, done
  gcI,           \* loop variable i
  gcPromises,    \* lazyBatchPromises of the current group, with their results
  gcInflight,    \* offsets of the fetcher calls not yet settled
  gcMeta,        \* size and context read from page 0
  gcFetches,     \* the fetcher calls made, in order
  chunks,        \* the chunks yielded to the consumer, in order
  pulls,         \* next() calls made by the consumer
  stopped,       \* the consumer left its for-await loop by break
  acc,           \* context and allRows of the batchGet built on getChunks
  tResult        \* the value that batchGet returned

VARIABLES
  client,         \* which ApiClient is running: moysklad.ts or token-bucket.ts
  requestWeight,  \* this.requestWeight
  now,            \* Date.now(), in milliseconds
  rateLimitState, \* the fields lastReset and requestsUsed of this.rateLimitState
  rPc,            \* position of the request() call that runs alone
  rArgs,          \* endpoint, method, body and searchParameters of that call
  rTimer,         \* the time at which the pending setTimeout is due
  rDelay,         \* the delay the pending setTimeout was started with
  rResponse,      \* this.lastResponse as left by the afterResponse hook
  rAtCall,        \* rateLimitState when ky was last called
  rIssued,        \* the time at which ky was last called
  rAnswered,      \* the time at which the last response came
  rAdmit,         \* the admission check of the HTTP call in progress: the delay
                  \* returned, threshold - requestsUsed, the milliseconds to
                  \* lastReset + 3 s, whether the window of the last quota
                  \* headers was still open
  rLog,           \* the HTTP calls made by the current request() call
  rResult,        \* how the current request() call ended
  rSteps,         \* the steps the current attempt has taken, in order
  rCalls          \* request() calls made so far

VARIABLES
  today,          \* the calendar day of new Date(): days since 1 January 2026
  qAuth,          \* the keys of options.auth of the ApiClient constructed last
  qBuilt,         \* the day on which that ApiClient was constructed
  qWeight,        \* its this.requestWeight
  qThreshold      \* its this.rateLimitThreshold

execVars == <<client, requestWeight, now, rateLimitState, rPc, rArgs, rTimer,
              rDelay, rResponse, rAtCall, rIssued, rAnswered, rAdmit, rLog,
              rResult, rSteps, rCalls>>

gateVars == <<pc, concurrent, micro, lastResponse, outcome, served429>>

configVars == <<requested, hasExpand, totalSize, withContext, mOptions, tOptions>>

bgVars == <<bgPc, bgI, bgPromises, bgInflight, bgAllRows, bgMeta, bgResult, bgFetches>>

gcVars == <<gcPc, gcI, gcPromises, gcInflight, gcMeta, gcFetches, chunks, pulls,
            stopped, acc, tResult>>

pagerVars == <<configVars, bgVars, gcVars>>

VARIABLES
  heap,           \* the RateLimitState objects allocated so far
  iKind,          \* of each ApiClient instance: not constructed, or its class
  iRef,           \* the object its this.rateLimitState refers to
  iWeight,        \* its this.requestWeight
  iResponse,      \* its this.lastResponse
  iPc,            \* the position of the request() call running on it
  iCalls,         \* request() calls made so far, on any instance
  iTimer,         \* the time at which its pending setTimeout is due
  iNow,           \* Date.now(), in milliseconds
  iServed,        \* number of 429 answers given so far
  iActor          \* the instance whose code ran last

VARIABLES
  bucket,         \* the TokenBucket: capacity, tokens, windowDuration, lastRefill,
                  \* nextReset
  mutex,          \* this.mutex: the consume() call whose promise it is (0: the
                  \* resolved promise it starts as)
  bPrevious,      \* `previous` of each consume() call
  bReleased,      \* whether each call has run its release()
  bPc,            \* position of each consume() call
  bWeight,        \* the weight each call asks for
  bDue,           \* the time at which the setTimeout of each call is due
  bInside,        \* calls that went past `await previous` and have not released
  bLast,          \* the sync() call, with its arguments, when it ran last
  bAt,            \* the second in which each call took its tokens (Absent: not yet)
  bRounds,        \* rounds of `while (true)` each call has run
  bNow            \* Date.now(), in milliseconds

quotaVars == <<today, qAuth, qBuilt, qWeight, qThreshold>>

instVars == <<heap, iKind, iRef, iWeight, iResponse, iPc, iCalls, iTimer, iNow,
              iServed, iActor>>

bucketVars == <<bucket, mutex, bPrevious, bReleased, bPc, bWeight, bDue, bInside,
                bLast, bAt, bRounds, bNow>>

newVars == <<quotaVars, instVars, bucketVars>>

farVars == <<execVars, newVars>>

vars == <<gateVars, pagerVars, execVars, newVars>>

Requests == 1..NReq

NoResponse == [req |-> 0, status |-> 0]

\* HTTP statuses the server answers with: ok, throttled, another non-2xx
Statuses == {200, 429, 500}

\* an ok test without the upper end
IsOkFrom200(status) == status >= 200

\* Response.ok
IsOk(status) == status >= 200 /\ status <= 299

\* the positions at which a call has run `concurrent++` and not yet its finally
Holding == {"http", "resume", "retrySleep", "handleError"}

\* a request() call that was made and has neither returned nor thrown
Outstanding(r) == pc[r] \notin {"idle", "done"}

\* ------------------------------------------------------------ gate helpers

\* the loop condition of waitForParallelSlot
SlotBusy(c) == c >= parallelRequestLimit

\* a hook that keeps the response it stored first
KeepFirstResponse(last, r, status) ==
  IF last = NoResponse THEN [req |-> r, status |-> status] ELSE last

\* the afterResponse hook run for the response of the call r:
\* `this.lastResponse = response`
afterResponse(last, r, status) == [req |-> r, status |-> status]

\* a release that is skipped when the call leaves by a thrown API error
ReleaseUnlessApiError(c, how) == IF how = "apiError" THEN c ELSE c - 1

\* a release that is skipped when the call leaves by `return this.request(...)`
ReleaseUnlessRetry(c, how) == IF how = "retry" THEN c ELSE c - 1

\* `finally { this.rateLimitState.concurrent-- }`: c is the counter, how the
\* exit path taken
ReleaseSlot(c, how) == c - 1

GateInit ==
  /\ pc = [r \in Requests |-> "idle"]
  /\ concurrent = 0
  /\ micro = <<>>
  /\ lastResponse = NoResponse
  /\ outcome = [r \in Requests |-> "none"]
  /\ served429 = 0

\* request(): runs synchronously up to `await this.waitForParallelSlot()`.
\* waitForParallelSlot tests its loop condition at once: when a slot is free it
\* returns and the caller's continuation is queued as a microtask, otherwise it
\* sleeps 50 ms. Calls are made in the order of their numbers.
Call(r) ==
  /\ pc[r] = "idle"
  /\ \A q \in Requests : q < r => pc[q] # "idle"
  /\ IF SlotBusy(concurrent)
       THEN /\ pc' = [pc EXCEPT ![r] = "slotSleep"]
            /\ micro' = micro
       ELSE /\ pc' = [pc EXCEPT ![r] = "granted"]
            /\ micro' = Append(micro, r)
  /\ UNCHANGED <<concurrent, lastResponse, outcome, served429>>
  /\ UNCHANGED <<pagerVars, farVars>>

\* The continuation after `await this.waitForParallelSlot()`:
\* `this.rateLimitState.concurrent++`, then the call of ky.
Enter(r) ==
  /\ micro # <<>> /\ Head(micro) = r
  /\ pc[r] = "granted"
  /\ concurrent' = concurrent + 1
  /\ pc' = [pc EXCEPT ![r] = "http"]
  /\ micro' = Tail(micro)
  /\ UNCHANGED <<lastResponse, outcome, served429>>
  /\ UNCHANGED <<pagerVars, farVars>>

\* The 50 ms timer of waitForParallelSlot fires: the loop condition is tested
\* again; when it fails the function returns and, no other task running in
\* between, the caller increments the counter and calls ky.
WakeSlot(r) ==
  /\ micro = <<>>
  /\ pc[r] = "slotSleep"
  /\ IF SlotBusy(concurrent)
       THEN UNCHANGED <<pc, concurrent>>
       ELSE /\ concurrent' = concurrent + 1
            /\ pc' = [pc EXCEPT ![r] = "http"]
  /\ UNCHANGED <<micro, lastResponse, outcome, served429>>
  /\ UNCHANGED <<pagerVars, farVars>>

\* The server answers: ky runs the afterResponse hook, which stores the
\* response in this.lastResponse; `await this.ky(...)` then resumes.
HttpRespond(r, status) ==
  /\ micro = <<>>
  /\ pc[r] = "http"
  /\ status = 429 => served429 < Gate429
  /\ served429' = IF status = 429 THEN served429 + 1 ELSE served429
  /\ lastResponse' = afterResponse(lastResponse, r, status)
  /\ pc' = [pc EXCEPT ![r] = "resume"]
  /\ micro' = Append(micro, r)
  /\ UNCHANGED <<concurrent, outcome>>
  /\ UNCHANGED <<pagerVars, farVars>>

\* The HTTP call itself fails: ky rejects, request() leaves through finally.
HttpFail(r) ==
  /\ micro = <<>>
  /\ pc[r] = "http"
  /\ concurrent' = ReleaseSlot(concurrent, "transport")
  /\ pc' = [pc EXCEPT ![r] = "done"]
  /\ outcome' = [outcome EXCEPT ![r] = "transportError"]
  /\ UNCHANGED <<micro, lastResponse, served429>>
  /\ UNCHANGED <<pagerVars, farVars>>

\* After `await this.ky(...)`: `const response = this.lastResponse` and the
\* classification of the response.
Resume(r) ==
  /\ micro # <<>> /\ Head(micro) = r
  /\ pc[r] = "resume"
  /\ micro' = Tail(micro)
  /\ CASE lastResponse = NoResponse ->
            /\ concurrent' = ReleaseSlot(concurrent, "noResponse")
            /\ pc' = [pc EXCEPT ![r] = "done"]
            /\ outcome' = [outcome EXCEPT ![r] = "noResponse"]
       [] lastResponse # NoResponse /\ lastResponse.status = 429 ->
            /\ pc' = [pc EXCEPT ![r] = "retrySleep"]
            /\ UNCHANGED <<concurrent, outcome>>
       [] lastResponse # NoResponse /\ lastResponse.status # 429
            /\ ~IsOk(lastResponse.status) ->
            /\ pc' = [pc EXCEPT ![r] = "handleError"]
            /\ UNCHANGED <<concurrent, outcome>>
       [] OTHER ->
            /\ concurrent' = ReleaseSlot(concurrent, "ok")
            /\ pc' = [pc EXCEPT ![r] = "done"]
            /\ outcome' = [outcome EXCEPT ![r] = "ok"]
  /\ UNCHANGED <<lastResponse, served429>>
  /\ UNCHANGED <<pagerVars, farVars>>

\* The 3100 ms timer after a 429 fires: `return this.request(endpoint, options)`.
\* The recursive call runs up to its first await (the slot test, made while the
\* outer call still holds its slot), then the outer finally gives the slot back.
RetryFire(r) ==
  /\ micro = <<>>
  /\ pc[r] = "retrySleep"
  /\ IF SlotBusy(concurrent)
       THEN /\ pc' = [pc EXCEPT ![r] = "slotSleep"]
            /\ micro' = micro
       ELSE /\ pc' = [pc EXCEPT ![r] = "granted"]
            /\ micro' = Append(micro, r)
  /\ concurrent' = ReleaseSlot(concurrent, "retry")
  /\ UNCHANGED <<lastResponse, outcome, served429>>
  /\ UNCHANGED <<pagerVars, farVars>>

\* `await handleError(response)` reads the body and throws the API error;
\* request() leaves through finally.
HandleErrorThrows(r) ==
  /\ micro = <<>>
  /\ pc[r] = "handleError"
  /\ concurrent' = ReleaseSlot(concurrent, "apiError")
  /\ pc' = [pc EXCEPT ![r] = "done"]
  /\ outcome' = [outcome EXCEPT ![r] = "apiError"]
  /\ UNCHANGED <<micro, lastResponse, served429>>
  /\ UNCHANGED <<pagerVars, farVars>>

\* ================================================================ executor
\* request() run alone on one client, with the clock, the rate limiter of
\* moysklad.ts and the quota headers of the responses.

Clients == {"moysklad", "tokenBucket"}

\* type RequestWeight = 1 | 2 | 3 | 4
RequestWeights == 1..4

\* Headers.get of a header the response does not carry
Absent == -1

\* Math.floor(Date.now() / 1000) at the time ms
Sec(ms) == ms \div 1000

Max(a, b) == IF a > b THEN a ELSE b

Min(a, b) == IF a < b THEN a ELSE b

\* the threshold rounded up
ThresholdRoundedUp(weight) == (45 + weight - 1) \div weight

\* Math.floor(RATE_LIMIT_UNITS / weight)
getRateLimitThreshold(weight) == 45 \div weight

\* the requests a caller makes: endpoint, method, body, searchParameters
Args ==
  { [endpoint |-> "entity/product", method |-> "GET", body |-> "none",
     searchParameters |-> "limit=1"],
    [endpoint |-> "entity/counterparty", method |-> "POST", body |-> "name",
     searchParameters |-> "none"] }

NoArgs == [endpoint |-> "none", method |-> "none", body |-> "none",
           searchParameters |-> "none"]

\* no response stored yet
NoHeaders == [status |-> 0, limit |-> Absent, remaining |-> Absent,
              reset |-> Absent, retryAfter |-> Absent]

\* The quota headers a response may carry at the time t: X-RateLimit-Limit,
\* X-RateLimit-Remaining and X-RateLimit-Reset (epoch seconds, this second or
\* two seconds ahead); all three, two of them, or none.
NoQuota == [limit |-> Absent, remaining |-> Absent, reset |-> Absent]

QuotaHeaders(t) ==
  { [limit |-> 45, remaining |-> 0, reset |-> Sec(t)],
    [limit |-> 45, remaining |-> 0, reset |-> Sec(t) + 2],
    [limit |-> 45, remaining |-> 35, reset |-> Sec(t) + 2],
    [limit |-> Absent, remaining |-> 35, reset |-> Sec(t) + 2],
    [limit |-> 45, remaining |-> Absent, reset |-> Sec(t) + 2],
    [limit |-> 45, remaining |-> 0, reset |-> Absent],
    NoQuota }

\* a response with the status s, the quota headers q and Retry-After ra
Response(s, q, ra) ==
  [status |-> s, limit |-> q.limit, remaining |-> q.remaining, reset |-> q.reset,
   retryAfter |-> ra]

\* The responses the server may give at the time t: a 200 with any of the
\* quota headers, a 429 with or without Retry-After (seconds) and with all or
\* none of the quota headers, a 500 without them.
Responses(t) ==
  { Response(200, q, Absent) : q \in QuotaHeaders(t) }
    \cup { Response(429, q, ra) :
             q \in {NoQuota, [limit |-> 45, remaining |-> 0, reset |-> Sec(t) + 2]},
             ra \in {Absent, 2, 5} }
    \cup { Response(500, NoQuota, Absent) }

\* the errors ky rejects with when the HTTP call itself fails
TransportErrors == {"TypeError: fetch failed", "TimeoutError"}

NoOutcome == [kind |-> "none", status |-> 0, error |-> "none"]

\* return response
ReturnResponse(response) ==
  [kind |-> "returned", status |-> response.status, error |-> "none"]

\* an error thrown by ky leaves request() as it is
Rethrow(e) == [kind |-> "threw", status |-> 0, error |-> e]

\* handleError(response): throws the structured error that carries the response
handleError(response) ==
  [kind |-> "threw", status |-> response.status, error |-> "MoyskladApiError"]

\* a header reading that takes a missing header for 0
parseWithDefaults(response) ==
  [present |-> TRUE,
   remaining |-> Max(response.remaining, 0),
   limit |-> Max(response.limit, 0),
   reset |-> Max(response.reset, 0)]

\* parseRateLimitHeaders: null unless all three headers are there
parseRateLimitHeaders(response) ==
  IF response.remaining = Absent \/ response.limit = Absent
       \/ response.reset = Absent
    THEN [present |-> FALSE, remaining |-> 0, limit |-> 0, reset |-> 0]
    ELSE [present |-> TRUE, remaining |-> response.remaining,
          limit |-> response.limit, reset |-> response.reset]

\* updateRateLimitInfo of moysklad.ts, run at the time t on the state st
updateRateLimitInfo(st, response, t) ==
  LET info == parseRateLimitHeaders(response)
      rolled == IF Sec(t) >= info.reset
                  THEN [lastReset |-> info.reset, requestsUsed |-> 0]
                  ELSE st
  IN IF ~info.present
       THEN st
       ELSE [rolled EXCEPT !.requestsUsed = info.limit - info.remaining]

\* updateRateLimitInfo of token-bucket.ts: the headers are read and logged,
\* checkAndHandleRateLimit is started and not awaited, nothing is stored
updateRateLimitInfoT(st, response, t) == st

\* calculateBackoffDelay, run at the time t on the state st
calculateBackoffDelay(st, threshold, t) ==
  LET windowRemaining == st.lastReset - Sec(t)
      requestsRemaining == threshold - st.requestsUsed
  IN IF Sec(t) >= st.lastReset THEN 0
     ELSE IF requestsRemaining > 1 THEN 0
     ELSE windowRemaining * 1000 + 100

\* an accounting that counts a request whether or not a response came
TrackAlways(st, weight, captured) == [st EXCEPT !.requestsUsed = @ + weight]

\* `this.rateLimitState.requestsUsed += this.requestWeight` stands after
\* `await this.ky(...)` and the test of the captured response
TrackRequest(st, weight, captured) ==
  IF captured THEN [st EXCEPT !.requestsUsed = @ + weight] ELSE st

\* the `delay` of the 429 branch
RetryDelay(c, response) ==
  IF c = "moysklad"
    THEN IF response.retryAfter # Absent THEN response.retryAfter * 1000 ELSE 3100
    ELSE 3100

\* the arguments of `this.request(endpoint, { searchParameters, body, ...options })`
RetryArgs(a) ==
  [endpoint |-> a.endpoint, method |-> a.method, body |-> a.body,
   searchParameters |-> a.searchParameters]

\* a 429 that is handed to the error translation
ThrottledAsError(status) == FALSE

\* response.status === 429
Throttled(status) == status = 429

\* no admission check made for the HTTP call in progress
NoAdmit == [delay |-> 0, budget |-> 0, untilEnd |-> 0, inWindow |-> FALSE,
            made |-> FALSE]

ExecIdle ==
  /\ client = "moysklad"
  /\ requestWeight = 1
  /\ now = 0
  /\ rateLimitState = [lastReset |-> 0, requestsUsed |-> 0]
  /\ rPc = "idle"
  /\ rArgs = NoArgs
  /\ rTimer = 0
  /\ rDelay = 0
  /\ rResponse = NoHeaders
  /\ rAtCall = [lastReset |-> 0, requestsUsed |-> 0]
  /\ rIssued = 0
  /\ rAnswered = 0
  /\ rAdmit = NoAdmit
  /\ rLog = <<>>
  /\ rResult = NoOutcome
  /\ rSteps = <<>>
  /\ rCalls = 0

\* the state after construction: the weight is fixed by the constructor (the
\* token-bucket.ts client computes none), the clock shows some time of day
ExecInit ==
  /\ client \in Clients
  /\ requestWeight \in (IF client = "moysklad" THEN RequestWeights ELSE {1})
  /\ now = 10000
  /\ rateLimitState = [lastReset |-> 0, requestsUsed |-> 0]
  /\ rPc = "idle"
  /\ rArgs = NoArgs
  /\ rTimer = 0
  /\ rDelay = 0
  /\ rResponse = NoHeaders
  /\ rAtCall = [lastReset |-> 0, requestsUsed |-> 0]
  /\ rIssued = 0
  /\ rAnswered = 0
  /\ rAdmit = NoAdmit
  /\ rLog = <<>>
  /\ rResult = NoOutcome
  /\ rSteps = <<>>
  /\ rCalls = 0

\* `await this.ky(normalizedEndpoint, kyOptions)`: the HTTP call is made with
\* the arguments a at the time t, the limiter being in the state st, by an
\* attempt that has taken the steps given
CallKy(log, a, t, st, steps) ==
  /\ rPc' = "http"
  /\ rSteps' = Append(steps, "http")
  /\ rLog' = Append(log, [args |-> a, status |-> 0, error |-> "none"])
  /\ rAtCall' = st
  /\ rIssued' = t

\* `await this.waitForRateLimit()` at the time t, then the ky call when the
\* delay is 0; the token-bucket.ts client goes to the ky call at once
Admit(log, a, t, steps) ==
  IF client = "moysklad"
    THEN LET threshold == getRateLimitThreshold(requestWeight)
             delay == calculateBackoffDelay(rateLimitState, threshold, t)
         IN /\ rAdmit' = [delay |-> delay,
                          budget |-> threshold - rateLimitState.requestsUsed,
                          untilEnd |-> (rateLimitState.lastReset + 3 - Sec(t)) * 1000,
                          inWindow |-> /\ parseRateLimitHeaders(rResponse).present
                                       /\ Sec(t) < rResponse.reset,
                          made |-> TRUE]
            /\ IF delay > 0
                 THEN /\ rPc' = "rateSleep"
                      /\ rTimer' = t + delay
                      /\ rDelay' = delay
                      /\ rLog' = log
                      /\ rSteps' = Append(steps, "admission")
                      /\ UNCHANGED <<rAtCall, rIssued>>
                 ELSE /\ CallKy(log, a, t, rateLimitState, Append(steps, "admission"))
                      /\ UNCHANGED <<rTimer, rDelay>>
    ELSE /\ CallKy(log, a, t, rateLimitState, steps)
         /\ UNCHANGED <<rAdmit, rTimer, rDelay>>

\* request(endpoint, options) is called: waitForParallelSlot finds a free slot
\* (the call runs alone), `concurrent++`, then the admission
ExecRequest(a) ==
  /\ rPc \in {"idle", "done"}
  /\ rCalls < NCalls
  /\ rCalls' = rCalls + 1
  /\ rArgs' = a
  /\ rResult' = NoOutcome
  /\ concurrent' = concurrent + 1
  /\ rAnswered' = 0
  /\ Admit(<<>>, a, now, <<"slot">>)
  /\ UNCHANGED <<client, requestWeight, now, rateLimitState, rResponse>>
  /\ UNCHANGED <<pc, micro, lastResponse, outcome, served429, pagerVars, newVars>>

\* the server answers: the afterResponse hook stores the response and runs
\* updateRateLimitInfo
ExecRespond(response) ==
  /\ rPc = "http"
  /\ Throttled(response.status) => served429 < Max429
  /\ served429' = IF Throttled(response.status) THEN served429 + 1 ELSE served429
  /\ rResponse' = response
  /\ rAnswered' = now
  /\ rateLimitState' = IF client = "moysklad"
                         THEN updateRateLimitInfo(rateLimitState, response, now)
                         ELSE updateRateLimitInfoT(rateLimitState, response, now)
  /\ rLog' = [rLog EXCEPT ![Len(rLog)] = [@ EXCEPT !.status = response.status]]
  /\ rAdmit' = NoAdmit
  /\ rSteps' = Append(rSteps, "headers")
  /\ rPc' = "hooked"
  /\ UNCHANGED <<client, requestWeight, now, rArgs, rTimer, rDelay, rAtCall, rIssued,
                 rResult, rCalls>>
  /\ UNCHANGED <<pc, concurrent, micro, lastResponse, outcome, pagerVars, newVars>>

\* the HTTP call itself fails: ky rejects, nothing catches, finally runs
ExecFail(e) ==
  /\ rPc = "http"
  /\ rateLimitState' = IF client = "moysklad"
                         THEN TrackRequest(rateLimitState, requestWeight, FALSE)
                         ELSE rateLimitState
  /\ rResult' = Rethrow(e)
  /\ concurrent' = ReleaseSlot(concurrent, "transport")
  /\ rLog' = [rLog EXCEPT ![Len(rLog)] = [@ EXCEPT !.error = e]]
  /\ rAdmit' = NoAdmit
  /\ rPc' = "done"
  /\ UNCHANGED <<client, requestWeight, now, rArgs, rTimer, rDelay, rResponse, rAtCall,
                 rIssued, rAnswered, rSteps, rCalls>>
  /\ UNCHANGED <<pc, micro, lastResponse, outcome, served429, pagerVars, newVars>>

\* after `await this.ky(...)`: the request is counted (moysklad.ts) and the
\* response is classified
ExecClassify ==
  /\ rPc = "hooked"
  /\ rSteps' = Append(rSteps, "classify")
  /\ rateLimitState' = IF client = "moysklad"
                         THEN TrackRequest(rateLimitState, requestWeight, TRUE)
                         ELSE rateLimitState
  /\ IF Throttled(rResponse.status)
       THEN /\ rPc' = "retrySleep"
            /\ rDelay' = RetryDelay(client, rResponse)
            /\ rTimer' = now + rDelay'
            /\ UNCHANGED <<rResult, concurrent>>
       ELSE IF ~IsOk(rResponse.status)
         THEN /\ rPc' = "handleError"
              /\ UNCHANGED <<rTimer, rDelay, rResult, concurrent>>
         ELSE /\ rPc' = "done"
              /\ rResult' = ReturnResponse(rResponse)
              /\ concurrent' = ReleaseSlot(concurrent, "ok")
              /\ UNCHANGED <<rTimer, rDelay>>
  /\ UNCHANGED <<client, requestWeight, now, rArgs, rResponse, rAtCall, rIssued,
                 rAnswered, rAdmit, rLog, rCalls>>
  /\ UNCHANGED <<pc, micro, lastResponse, outcome, served429, pagerVars, newVars>>

\* The pending setTimeout fires. In waitForRateLimit: `requestsUsed = 0`, then
\* the ky call. In the 429 branch: `return this.request(...)`; the inner call
\* takes its slot (the slot test passes: one call holds a slot) and the outer
\* finally gives one back.
ExecTimerFire ==
  /\ rPc \in {"rateSleep", "retrySleep"}
  /\ now' = Max(now, rTimer)
  /\ IF rPc = "rateSleep"
       THEN /\ rateLimitState' = [rateLimitState EXCEPT !.requestsUsed = 0]
            /\ CallKy(rLog, rArgs, now', rateLimitState', rSteps)
            /\ UNCHANGED <<rArgs, rTimer, rDelay, rAdmit, concurrent>>
       ELSE /\ rArgs' = RetryArgs(rArgs)
            /\ concurrent' = ReleaseSlot(concurrent, "retry") + 1
            /\ Admit(rLog, rArgs', now', <<"slot">>)
            /\ UNCHANGED rateLimitState
  /\ UNCHANGED <<client, requestWeight, rResponse, rAnswered, rResult, rCalls>>
  /\ UNCHANGED <<pc, micro, lastResponse, outcome, served429, pagerVars, newVars>>

\* `await handleError(response)` throws; finally runs
ExecHandleError ==
  /\ rPc = "handleError"
  /\ rResult' = handleError(rResponse)
  /\ concurrent' = ReleaseSlot(concurrent, "apiError")
  /\ rPc' = "done"
  /\ UNCHANGED <<client, requestWeight, now, rateLimitState, rArgs, rTimer, rDelay,
                 rResponse, rAtCall, rIssued, rAnswered, rAdmit, rLog, rSteps, rCalls>>
  /\ UNCHANGED <<pc, micro, lastResponse, outcome, served429, pagerVars, newVars>>

\* a second passes: while the server works, between two calls, or over the
\* time a timer is due (timers may fire late)
ExecElapse ==
  /\ rPc # "hooked"
  /\ now + 1000 <= MaxNow
  /\ now' = now + 1000
  /\ UNCHANGED <<client, requestWeight, rateLimitState, rPc, rArgs, rTimer, rDelay,
                 rResponse, rAtCall, rIssued, rAnswered, rAdmit, rLog, rResult, rSteps,
                 rCalls>>
  /\ UNCHANGED <<gateVars, pagerVars, newVars>>

\* ============================================= weight and threshold by date

\* the days of the months of 2026, January first
MonthDays == <<31, 28, 31, 30, 31, 30, 31, 31, 30, 31, 30, 31>>

\* days of the year before the month with this index (January is index 0)
RECURSIVE DaysBefore(_)
DaysBefore(monthIndex) ==
  IF monthIndex = 0 THEN 0
  ELSE MonthDays[monthIndex] + DaysBefore(monthIndex - 1)

\* new Date(year, month, day) read with the month counted from 1
NewDateFromOne(year, monthIndex, day) ==
  (year - 2026) * 365
    + DaysBefore(IF monthIndex = 0 THEN 0 ELSE monthIndex - 1) + day - 1

\* new Date(year, monthIndex, day): local midnight of that day, as the number
\* of days since 1 January 2026; the month index counts from 0
NewDate(year, monthIndex, day) ==
  (year - 2026) * 365 + DaysBefore(monthIndex) + day - 1

\* options.auth by the keys it has: TokenAuth and BasicAuth
Auths == {{"token"}, {"login", "password"}}

NoAuth == {}

\* getRequestWeight(auth), with the value of new Date() made explicit
getRequestWeight(auth, date) ==
  LET isUserAuth == "login" \in auth IN
  IF ~isUserAuth THEN 1
  ELSE IF date >= NewDate(2026, 11, 1) THEN 4
  ELSE IF date >= NewDate(2026, 8, 1) THEN 3
  ELSE IF date >= NewDate(2026, 4, 12) THEN 2
  ELSE 1

QuotaIdle ==
  /\ today = NewDate(2026, 0, 1)
  /\ qAuth = NoAuth
  /\ qBuilt = NewDate(2026, 0, 1)
  /\ qWeight = 0
  /\ qThreshold = 0

\* new ApiClient({ auth }): the constructor computes weight and threshold
QuotaConstruct(auth) ==
  /\ qAuth' = auth
  /\ qBuilt' = today
  /\ qWeight' = getRequestWeight(auth, today)
  /\ qThreshold' = getRateLimitThreshold(getRequestWeight(auth, today))
  /\ UNCHANGED <<today, gateVars, pagerVars, execVars, instVars, bucketVars>>

\* midnight passes
QuotaDayPasses ==
  /\ today < MaxDay
  /\ today' = today + 1
  /\ UNCHANGED <<qAuth, qBuilt, qWeight, qThreshold, gateVars, pagerVars, execVars,
                 instVars, bucketVars>>

\* ====================================================== instances side by side
\* Several ApiClient instances, each running one request() call after the
\* other; this.rateLimitState is a reference to an object on the heap.

Instances == 1..NClients

\* the object `{ lastReset: 0, requestsUsed: 0, concurrent: 0 }`
FreshState == [lastReset |-> 0, requestsUsed |-> 0, concurrent |-> 0]

\* one object that every instance refers to
SharedObject(h) == 1

\* The field initialiser `rateLimitState = { ... }` is evaluated by each
\* construction: the object literal allocates a new object.
NewObject(h) == Len(h) + 1

\* lastReset and requestsUsed of a RateLimitState object
Accounting(obj) == [lastReset |-> obj.lastReset, requestsUsed |-> obj.requestsUsed]

\* the object with lastReset and requestsUsed written
WithAccounting(obj, st) ==
  [obj EXCEPT !.lastReset = st.lastReset, !.requestsUsed = st.requestsUsed]

\* the responses given to the instances at the time t
InstResponses(t) ==
  { Response(200, NoQuota, Absent),
    Response(200, [limit |-> 45, remaining |-> 35, reset |-> Sec(t) + 2], Absent),
    Response(429, NoQuota, Absent),
    Response(500, NoQuota, Absent) }

\* the request weights the instances are constructed with
InstWeights == {1, 4}

InstIdle ==
  /\ heap = <<>>
  /\ iKind = [i \in Instances |-> "moysklad"]
  /\ iRef = [i \in Instances |-> 0]
  /\ iWeight = [i \in Instances |-> 0]
  /\ iResponse = [i \in Instances |-> NoHeaders]
  /\ iPc = [i \in Instances |-> "idle"]
  /\ iCalls = 0
  /\ iTimer = [i \in Instances |-> 0]
  /\ iNow = 10000
  /\ iServed = 0
  /\ iActor = 0

\* the object this.rateLimitState of the instance i
StateOf(i) == heap[iRef[i]]

\* this.rateLimitState.<field> = ... run by the instance i
WriteState(i, obj) == [heap EXCEPT ![iRef[i]] = obj]

\* new ApiClient(options) run n times: the objects allocated and the
\* reference each instance holds
RECURSIVE Constructed(_)
Constructed(n) ==
  IF n = 0 THEN [heap |-> <<>>, ref |-> <<>>]
  ELSE LET before == Constructed(n - 1)
           o == NewObject(before.heap)
       IN [heap |-> IF o > Len(before.heap) THEN Append(before.heap, FreshState)
                    ELSE before.heap,
           ref |-> Append(before.ref, o)]

\* the state after the construction of the instances, all of one class
InstInit ==
  /\ heap = Constructed(NClients).heap
  /\ iRef = Constructed(NClients).ref
  /\ \E c \in Clients :
       /\ iKind = [i \in Instances |-> c]
       /\ \E w \in (IF c = "moysklad" THEN InstWeights ELSE {1}) :
            iWeight = [i \in Instances |-> w]
  /\ iResponse = [i \in Instances |-> NoHeaders]
  /\ iPc = [i \in Instances |-> "idle"]
  /\ iCalls = 0
  /\ iTimer = [i \in Instances |-> 0]
  /\ iNow = 10000
  /\ iServed = 0
  /\ iActor = 0

\* waitForRateLimit and the ky call of an attempt of the instance i whose
\* object is obj at the time t
InstAdmit(i, obj, t) ==
  LET delay == calculateBackoffDelay(Accounting(obj),
                                     getRateLimitThreshold(iWeight[i]), t)
  IN IF iKind[i] = "moysklad" /\ delay > 0
       THEN /\ iPc' = [iPc EXCEPT ![i] = "rateSleep"]
            /\ iTimer' = [iTimer EXCEPT ![i] = t + delay]
       ELSE /\ iPc' = [iPc EXCEPT ![i] = "http"]
            /\ iTimer' = [iTimer EXCEPT ![i] = 0]

\* request() on the instance i: the slot is free, `concurrent++`, admission
InstRequest(i) ==
  /\ iPc[i] \in {"idle", "done"}
  /\ iCalls < NCalls
  /\ iCalls' = iCalls + 1
  /\ heap' = WriteState(i, [StateOf(i) EXCEPT !.concurrent = @ + 1])
  /\ InstAdmit(i, StateOf(i), iNow)
  /\ iActor' = i
  /\ UNCHANGED <<iKind, iRef, iWeight, iResponse, iNow, iServed>>
  /\ UNCHANGED <<gateVars, pagerVars, execVars, quotaVars, bucketVars>>

\* the afterResponse hook of the instance i
InstRespond(i, response) ==
  /\ iPc[i] = "http"
  /\ Throttled(response.status) => iServed < Max429
  /\ iServed' = IF Throttled(response.status) THEN iServed + 1 ELSE iServed
  /\ iResponse' = [iResponse EXCEPT ![i] = response]
  /\ heap' = WriteState(i, WithAccounting(StateOf(i),
                IF iKind[i] = "moysklad"
                  THEN updateRateLimitInfo(Accounting(StateOf(i)), response, iNow)
                  ELSE updateRateLimitInfoT(Accounting(StateOf(i)), response, iNow)))
  /\ iPc' = [iPc EXCEPT ![i] = "hooked"]
  /\ iActor' = i
  /\ UNCHANGED <<iKind, iRef, iWeight, iCalls, iTimer, iNow>>
  /\ UNCHANGED <<gateVars, pagerVars, execVars, quotaVars, bucketVars>>

\* the HTTP call of the instance i fails: finally runs
InstFail(i) ==
  /\ iPc[i] = "http"
  /\ heap' = WriteState(i,
       [StateOf(i) EXCEPT !.concurrent = ReleaseSlot(@, "transport")])
  /\ iPc' = [iPc EXCEPT ![i] = "done"]
  /\ iActor' = i
  /\ UNCHANGED <<iKind, iRef, iWeight, iResponse, iCalls, iTimer, iNow, iServed>>
  /\ UNCHANGED <<gateVars, pagerVars, execVars, quotaVars, bucketVars>>

\* after `await this.ky(...)` on the instance i: the request is counted
\* (moysklad.ts), the response classified; handleError throws, finally runs
InstClassify(i) ==
  /\ iPc[i] = "hooked"
  /\ LET counted == WithAccounting(StateOf(i),
                       IF iKind[i] = "moysklad"
                         THEN TrackRequest(Accounting(StateOf(i)), iWeight[i], TRUE)
                         ELSE Accounting(StateOf(i)))
     IN IF Throttled(iResponse[i].status)
          THEN /\ iPc' = [iPc EXCEPT ![i] = "retrySleep"]
               /\ iTimer' = [iTimer EXCEPT ![i] = iNow + RetryDelay(iKind[i], iResponse[i])]
               /\ heap' = WriteState(i, counted)
          ELSE /\ iPc' = [iPc EXCEPT ![i] = "done"]
               /\ heap' = WriteState(i,
                    [counted EXCEPT !.concurrent =
                       ReleaseSlot(@, IF IsOk(iResponse[i].status) THEN "ok" ELSE "apiError")])
               /\ UNCHANGED iTimer
  /\ iActor' = i
  /\ UNCHANGED <<iKind, iRef, iWeight, iResponse, iCalls, iNow, iServed>>
  /\ UNCHANGED <<gateVars, pagerVars, execVars, quotaVars, bucketVars>>

\* the pending setTimeout of the instance i fires: waitForRateLimit writes
\* `requestsUsed = 0` and the ky call follows; the 429 branch calls request()
\* again, which takes a slot while the outer finally gives one back
InstTimerFire(i) ==
  /\ iPc[i] \in {"rateSleep", "retrySleep"}
  /\ iNow' = Max(iNow, iTimer[i])
  /\ IF iPc[i] = "rateSleep"
       THEN /\ heap' = WriteState(i, [StateOf(i) EXCEPT !.requestsUsed = 0])
            /\ iPc' = [iPc EXCEPT ![i] = "http"]
            /\ iTimer' = [iTimer EXCEPT ![i] = 0]
       ELSE /\ heap' = WriteState(i,
                 [StateOf(i) EXCEPT !.concurrent = ReleaseSlot(@, "retry") + 1])
            /\ InstAdmit(i, StateOf(i), iNow')
  /\ iActor' = i
  /\ UNCHANGED <<iKind, iRef, iWeight, iResponse, iCalls, iServed>>
  /\ UNCHANGED <<gateVars, pagerVars, execVars, quotaVars, bucketVars>>

\* a second passes
InstElapse ==
  /\ iNow + 1000 <= MaxNow
  /\ \A i \in Instances : iPc[i] # "hooked"
  /\ iNow' = iNow + 1000
  /\ iActor' = 0
  /\ UNCHANGED <<heap, iKind, iRef, iWeight, iResponse, iPc, iCalls, iTimer, iServed>>
  /\ UNCHANGED <<gateVars, pagerVars, execVars, quotaVars, bucketVars>>

\* ============================================================= TokenBucket
\* The class TokenBucket of token-bucket.ts, with consume() calls made at any
\* time and sync() calls between them.

Callers == 1..NCallers

\* the capacities the bucket is constructed with: with these, the partial
\* refill (elapsed / windowDuration) * capacity is a whole number
Capacities == {15, 45}

\* capacities about as large as one weight: a few calls empty the bucket, and
\* a call may ask for more than the bucket holds
SmallCapacities == {3, 6}

\* the weights consume() is called with
BucketWeights == {1, 4}

\* constructor(capacity, windowDuration = 3) at the time t
NewBucket(capacity, t) ==
  [capacity |-> capacity, tokens |-> capacity, windowDuration |-> 3,
   lastRefill |-> Sec(t), nextReset |-> Sec(t) + 3]

\* a sync that always takes the remaining tokens of the server
syncRemainingOnly(b, serverRemaining, serverReset, t) ==
  [b EXCEPT !.nextReset = serverReset,
            !.tokens = serverRemaining,
            !.lastRefill = serverReset - b.windowDuration]

\* sync(serverRemaining, serverReset) at the time t
sync(b, serverRemaining, serverReset, t) ==
  IF Sec(t) >= serverReset
    THEN [b EXCEPT !.nextReset = serverReset,
                   !.tokens = b.capacity,
                   !.lastRefill = serverReset]
    ELSE [b EXCEPT !.nextReset = serverReset,
                   !.tokens = serverRemaining,
                   !.lastRefill = serverReset - b.windowDuration]

\* a refill that adds the partial amount without the cap of Math.min
refillUncapped(b, t) ==
  LET elapsed == Sec(t) - b.lastRefill
      windowsPassed == elapsed \div b.windowDuration
  IN IF Sec(t) <= b.lastRefill THEN b
     ELSE IF windowsPassed > 0
       THEN [b EXCEPT !.tokens = b.capacity,
                      !.lastRefill = b.lastRefill + windowsPassed * b.windowDuration]
       ELSE [b EXCEPT !.tokens =
               b.tokens + (elapsed * b.capacity) \div b.windowDuration]

\* refill() at the time t
refill(b, t) ==
  LET elapsed == Sec(t) - b.lastRefill
      windowsPassed == elapsed \div b.windowDuration
  IN IF Sec(t) <= b.lastRefill THEN b
     ELSE IF windowsPassed > 0
       THEN [b EXCEPT !.tokens = b.capacity,
                      !.lastRefill = b.lastRefill + windowsPassed * b.windowDuration]
       ELSE [b EXCEPT !.tokens =
               Min(b.capacity, b.tokens + (elapsed * b.capacity) \div b.windowDuration)]

\* the delay of the setTimeout of consume() at the time t; a delay below 1 ms
\* is taken as 1 ms by the timer
delayMs(b, t) ==
  LET waitUntil == Min(b.nextReset, b.lastRefill + b.windowDuration)
  IN Max((waitUntil - Sec(t)) * 1000 + 50, 1)

\* a return that leaves the promise of the call unresolved
KeepHeld(rel, k) == rel

\* `finally { release!() }` of the call k: its promise resolves
Release(rel, k) == [rel EXCEPT ![k] = TRUE]

\* a consume() that leaves this.mutex as it was
KeepMutex(m, k) == m

\* this.mutex = this.mutex.then(() => waitForMutex): the promise of the call k
ChainMutex(m, k) == k

\* Whether the promise of the call m (this.mutex as that call set it) is
\* resolved: the promise it was chained to is, and the call has released.
RECURSIVE Resolved(_)
Resolved(m) ==
  IF m = 0 THEN TRUE ELSE bReleased[m] /\ Resolved(bPrevious[m])

NoCall == [op |-> "none", remaining |-> 0, reset |-> 0]

\* the remaining tokens the server reports
SyncRemaining == {0, 35}

\* the arguments sync() is called with at the time t: the window of the
\* server ends now, or a whole window (3 s) ahead
SyncInputs(t) ==
  {[remaining |-> r, reset |-> x] : r \in SyncRemaining, x \in {Sec(t), Sec(t) + 3}}

BucketIdle ==
  /\ bucket = NewBucket(45, 0)
  /\ mutex = 0
  /\ bPrevious = [k \in Callers |-> 0]
  /\ bReleased = [k \in Callers |-> FALSE]
  /\ bPc = [k \in Callers |-> "idle"]
  /\ bWeight = [k \in Callers |-> 0]
  /\ bDue = [k \in Callers |-> 0]
  /\ bInside = 0
  /\ bLast = NoCall
  /\ bAt = [k \in Callers |-> Absent]
  /\ bRounds = [k \in Callers |-> 0]
  /\ bNow = 0

\* new TokenBucket(capacity) at some time of day, with a capacity of caps
BucketStart(caps) ==
  /\ bNow = 10000
  /\ \E capacity \in caps : bucket = NewBucket(capacity, bNow)
  /\ mutex = 0
  /\ bPrevious = [k \in Callers |-> 0]
  /\ bReleased = [k \in Callers |-> FALSE]
  /\ bPc = [k \in Callers |-> "idle"]
  /\ bWeight = [k \in Callers |-> 0]
  /\ bDue = [k \in Callers |-> 0]
  /\ bInside = 0
  /\ bLast = NoCall
  /\ bAt = [k \in Callers |-> Absent]
  /\ bRounds = [k \in Callers |-> 0]

BucketInit == BucketStart(Capacities)

\* a bucket that a few consume() calls empty
BudgetInit == BucketStart(SmallCapacities)

\* One round of `while (true)` run by the call k at the time t: refill, then
\* take the tokens, return and release in `finally`, or start the setTimeout.
Round(k, t, inside) ==
  LET b == refill(bucket, t) IN
  /\ bRounds' = [bRounds EXCEPT ![k] = @ + 1]
  /\ bAt' = [bAt EXCEPT ![k] = IF b.tokens >= bWeight[k] THEN Sec(t) ELSE @]
  /\ IF b.tokens >= bWeight[k]
       THEN /\ bucket' = [b EXCEPT !.tokens = @ - bWeight[k]]
            /\ bReleased' = Release(bReleased, k)
            /\ bPc' = [bPc EXCEPT ![k] = "done"]
            /\ bInside' = inside - 1
            /\ bDue' = [bDue EXCEPT ![k] = 0]
       ELSE /\ bucket' = b
            /\ bPc' = [bPc EXCEPT ![k] = "sleeping"]
            /\ bDue' = [bDue EXCEPT ![k] = t + delayMs(b, t)]
            /\ bInside' = inside
            /\ UNCHANGED bReleased

\* consume(weight) is called: the promise is chained, then `await previous`;
\* the calls are numbered in the order in which they are made
BucketCall(k, weight) ==
  /\ bPc[k] = "idle"
  /\ \A j \in 1..(k - 1) : bPc[j] # "idle"
  /\ bWeight' = [bWeight EXCEPT ![k] = weight]
  /\ bPrevious' = [bPrevious EXCEPT ![k] = mutex]
  /\ mutex' = ChainMutex(mutex, k)
  /\ bPc' = [bPc EXCEPT ![k] = "await"]
  /\ bLast' = NoCall
  /\ UNCHANGED <<bucket, bReleased, bDue, bInside, bAt, bRounds, bNow>>
  /\ UNCHANGED <<gateVars, pagerVars, execVars, quotaVars, instVars>>

\* `await previous` is over: the call enters `try` and runs its first round
BucketEnter(k) ==
  /\ bPc[k] = "await"
  /\ Resolved(bPrevious[k])
  /\ Round(k, bNow, bInside + 1)
  /\ bLast' = NoCall
  /\ UNCHANGED <<mutex, bPrevious, bWeight, bNow>>
  /\ UNCHANGED <<gateVars, pagerVars, execVars, quotaVars, instVars>>

\* the setTimeout of the call k fires: the next round
BucketWake(k) ==
  /\ bPc[k] = "sleeping"
  /\ bRounds[k] < MaxRounds
  /\ bNow' = Max(bNow, bDue[k])
  /\ Round(k, bNow', bInside)
  /\ bLast' = NoCall
  /\ UNCHANGED <<mutex, bPrevious, bWeight>>
  /\ UNCHANGED <<gateVars, pagerVars, execVars, quotaVars, instVars>>

\* sync(serverRemaining, serverReset) is called
BucketSync(in) ==
  /\ bucket' = sync(bucket, in.remaining, in.reset, bNow)
  /\ bLast' = [NoCall EXCEPT !.op = "sync", !.remaining = in.remaining,
                              !.reset = in.reset]
  /\ UNCHANGED <<mutex, bPrevious, bReleased, bPc, bWeight, bDue, bInside, bAt,
                 bRounds, bNow>>
  /\ UNCHANGED <<gateVars, pagerVars, execVars, quotaVars, instVars>>

\* a second passes
BucketElapse ==
  /\ bNow + 1000 <= MaxNow
  /\ bNow' = bNow + 1000
  /\ bLast' = NoCall
  /\ UNCHANGED <<bucket, mutex, bPrevious, bReleased, bPc, bWeight, bDue, bInside,
                 bAt, bRounds>>
  /\ UNCHANGED <<gateVars, pagerVars, execVars, quotaVars, instVars>>

\* =================================================================== pager

\* Math.ceil(a / b) for integers a and b > 0
Ceil(a, b) == -((-a) \div b)

\* an undefined context
Null == [employee |-> "undefined", page |-> -1]

\* size and context not read yet
NoMeta == [size |-> -1, context |-> Null]

\* no error
NoError == [page |-> -1, message |-> "none"]

\* the error the fetcher rejects with when the fetch of the page at offset fails
PageError(offset) == [page |-> offset, message |-> "rejected"]

\* no value returned yet
NoResult == [status |-> "none", context |-> Null, rows |-> <<>>, error |-> NoError]

\* return { context, rows }
Returned(context, rows) ==
  [status |-> "returned", context |-> context, rows |-> rows, error |-> NoError]

\* a rejection with an error of its own in place of the one caught
ThrownWrapped(e) ==
  [status |-> "rejected", context |-> Null, rows |-> <<>>,
   error |-> [page |-> -1, message |-> "batch failed"]]

\* `await` of a rejected promise inside batchGet / getChunks, which catch
\* nothing: the function rejects with the same error and returns no rows
ThrownBy(e) == [status |-> "rejected", context |-> Null, rows |-> <<>>, error |-> e]

\* The collection endpoint behind the fetcher: the rows offset .. offset+limit-1
\* of the unchanged collection 0 .. totalSize-1.
PageRows(limit, offset) ==
  [k \in 1..(Min(offset + limit, totalSize) - offset) |-> offset + k - 1]

\* The ListResponse the fetcher resolves with; its context, when the payload
\* has one, is tagged with the page it came with.
FetchPage(limit, offset) ==
  [rows |-> PageRows(limit, offset),
   meta |-> [size |-> totalSize],
   context |-> IF withContext THEN [employee |-> "meta", page |-> offset]
                              ELSE Null]

\* a fetcher call, as logged
FetchCall(limit, offset) == [limit |-> limit, offset |-> offset]

\* constructor of moysklad.ts: the defaults are merged (requested), then
\* concurrencyLimit is cut down to parallelRequestLimit
ConstructM(o) ==
  IF o.concurrencyLimit > parallelRequestLimitM
    THEN [o EXCEPT !.concurrencyLimit = parallelRequestLimitM]
    ELSE o

\* constructor of token-bucket.ts: the defaults are merged; the cut is
\* commented out
ConstructT(o) == o

\* a limit selection with the two limits exchanged
PageLimitSwapped(o, expand) == IF expand THEN o.limit ELSE o.expandLimit

\* const limit = hasExpand ? expandLimit : limit
PageLimit(o, expand) == IF expand THEN o.expandLimit ELSE o.limit

\* if (size <= limit) return
SinglePage(size, limit) == size <= limit

\* a page count taken from the collection as it is now
RemainingFromCollection(size, limit) == Ceil(totalSize - limit, limit)

\* Math.ceil((size - limit) / limit)
RemainingBatches(size, limit) == Ceil(size - limit, limit)

\* a group that takes every remaining page
GroupEndAll(i, c, remaining) == remaining

\* Math.min(i + concurrencyLimit, remainingBatches)
GroupEnd(i, c, remaining) == Min(i + c, remaining)

\* an offset that forgets page 0
PageOffsetFromZero(limit, j) == j * limit

\* const offset = limit + j * limit
PageOffset(limit, j) == limit + j * limit

\* The promises pushed by the inner loop `for (let j = i; j < batchEnd; j++)`.
GroupPromises(limit, i, c, remaining) ==
  [k \in 1..(GroupEnd(i, c, remaining) - i) |->
     [offset |-> PageOffset(limit, i + k - 1), done |-> FALSE, rows |-> <<>>]]

\* the fetcher calls made by the inner loop, in order
GroupCalls(limit, promises) ==
  [k \in 1..Len(promises) |-> FetchCall(limit, promises[k].offset)]

GroupOffsets(promises) == {promises[k].offset : k \in 1..Len(promises)}

\* a gathering that fills the result array in the order of completion
PlaceByCompletion(promises, k, rows) ==
  LET free == CHOOSE f \in 1..Len(promises) :
                /\ ~promises[f].done
                /\ \A g \in 1..(f - 1) : promises[g].done
  IN [promises EXCEPT ![free] = [@ EXCEPT !.done = TRUE, !.rows = rows]]

\* Promise.all: the value of the k-th promise is the k-th element of the result
PlaceResult(promises, k, rows) ==
  [promises EXCEPT ![k] = [@ EXCEPT !.done = TRUE, !.rows = rows]]

\* a group taken as finished as soon as one of its promises is
AnySettled(promises) == \E k \in 1..Len(promises) : promises[k].done

\* Promise.all resolves when every promise of the group has
AllSettled(promises) == \A k \in 1..Len(promises) : promises[k].done

\* a fetcher call settles: Promise.all stores its rows, when the call belongs to
\* the group awaited
Settle(promises, offset, rows) ==
  IF \E k \in 1..Len(promises) : promises[k].offset = offset
    THEN PlaceResult(promises,
                     CHOOSE k \in 1..Len(promises) : promises[k].offset = offset,
                     rows)
    ELSE promises

RECURSIVE FlatFrom(_, _)
FlatFrom(promises, k) ==
  IF k > Len(promises) THEN <<>>
  ELSE promises[k].rows \o FlatFrom(promises, k + 1)

\* a flattening that keeps the first page of the group only
FlatFirstOnly(promises) == IF promises = <<>> THEN <<>> ELSE promises[1].rows

\* results.flat()
Flat(promises) == FlatFrom(promises, 1)

RECURSIVE PushFrom(_, _, _)
PushFrom(rows, promises, k) ==
  IF k > Len(promises) THEN rows
  ELSE PushFrom(rows \o promises[k].rows, promises, k + 1)

\* for (const rows of batchResults) allRows.push(...rows)
PushAll(rows, promises) == PushFrom(rows, promises, 1)

\* a loop body that keeps the rows of the last chunk only
AccumulateLast(a, chunk) == [context |-> chunk.context, rows |-> chunk.rows]

\* the loop body of the batchGet built on getChunks:
\* context = chunk.context; allRows.push(...chunk.rows)
Accumulate(a, chunk) == [context |-> chunk.context, rows |-> a.rows \o chunk.rows]

\* the end of that batchGet
Finish(a) ==
  IF a.context = Null
    THEN [status |-> "threw", context |-> Null, rows |-> <<>>,
          error |-> [page |-> -1, message |-> "getChunks returned no chunks"]]
    ELSE Returned(a.context, a.rows)

bgLimit == PageLimit(mOptions, hasExpand)
gcLimit == PageLimit(tOptions, hasExpand)

\* batchGetOptions the caller passes, merged over the defaults
SmallOptions ==
  {[limit |-> l, expandLimit |-> 1, concurrencyLimit |-> c] :
     l \in 2..MaxLimit, c \in 1..MaxConc}

\* batchGetOptions whose concurrencyLimit is any number the constructor
\* takes: BatchGetOptions.concurrencyLimit is a number that is not checked
UncheckedOptions ==
  {[limit |-> l, expandLimit |-> 1, concurrencyLimit |-> c] :
     l \in 2..MaxLimit, c \in -1..1}

DefaultOptions ==
  [limit |-> DefaultLimit, expandLimit |-> DefaultExpandLimit,
   concurrencyLimit |-> DefaultConcurrencyLimit]

\* the collections of the default-options scenarios
ScenarioSizes == {7, 2500}

\* clients constructed with the options o, a query with hasExpand = e, a
\* collection of s rows whose payloads carry a context or not (c)
ConfigWith(o, e, s, c) ==
  /\ requested = o
  /\ hasExpand = e
  /\ totalSize = s
  /\ withContext = c
  /\ mOptions = ConstructM(o)
  /\ tOptions = ConstructT(o)

ConfigInit(o, e, s) == ConfigWith(o, e, s, TRUE)

PagerIdle ==
  /\ bgPc = "idle"
  /\ bgI = 0
  /\ bgPromises = <<>>
  /\ bgInflight = {}
  /\ bgAllRows = <<>>
  /\ bgMeta = NoMeta
  /\ bgResult = NoResult
  /\ bgFetches = <<>>
  /\ gcPc = "start"
  /\ gcI = 0
  /\ gcPromises = <<>>
  /\ gcInflight = {}
  /\ gcMeta = NoMeta
  /\ gcFetches = <<>>
  /\ chunks = <<>>
  /\ pulls = 0
  /\ stopped = FALSE
  /\ acc = [context |-> Null, rows |-> <<>>]
  /\ tResult = NoResult

PagerInit ==
  /\ \/ \E o \in SmallOptions, e \in BOOLEAN, s \in 0..MaxSize : ConfigInit(o, e, s)
     \/ \E s \in ScenarioSizes : ConfigInit(DefaultOptions, FALSE, s)
  /\ PagerIdle

\* an endpoint whose payloads may come without a context
BareInit ==
  /\ \E o \in SmallOptions, e \in BOOLEAN, s \in 0..MaxSize, c \in BOOLEAN :
       ConfigWith(o, e, s, c)
  /\ PagerIdle

\* a client constructed with any concurrencyLimit
LoopInit ==
  /\ \E o \in UncheckedOptions, e \in BOOLEAN, s \in 0..MaxSize : ConfigInit(o, e, s)
  /\ PagerIdle

\* ---- batchGet of moysklad.ts

\* batchGet is called: `await fetcher(limit, 0)`
BgStart ==
  /\ bgPc = "idle"
  /\ bgPc' = "page0"
  /\ bgFetches' = <<FetchCall(bgLimit, 0)>>
  /\ bgInflight' = {0}
  /\ UNCHANGED <<bgI, bgPromises, bgAllRows, bgMeta, bgResult>>
  /\ UNCHANGED <<farVars, gateVars, configVars, gcVars>>

\* page 0 arrives: return it when it is the only page, else start the first group
BgPage0 ==
  /\ bgPc = "page0"
  /\ LET data == FetchPage(bgLimit, 0)
         remainingBatches == RemainingBatches(data.meta.size, bgLimit)
         promises == GroupPromises(bgLimit, 0, mOptions.concurrencyLimit,
                                   remainingBatches)
     IN /\ bgMeta' = [size |-> data.meta.size, context |-> data.context]
        /\ IF SinglePage(data.meta.size, bgLimit)
             THEN /\ bgResult' = Returned(data.context, data.rows)
                  /\ bgPc' = "done"
                  /\ bgInflight' = {}
                  /\ UNCHANGED <<bgI, bgPromises, bgAllRows, bgFetches>>
             ELSE /\ bgAllRows' = data.rows
                  /\ bgI' = 0
                  /\ IF 0 < remainingBatches
                       THEN /\ bgPromises' = promises
                            /\ bgFetches' = bgFetches \o GroupCalls(bgLimit, promises)
                            /\ bgInflight' = GroupOffsets(promises)
                            /\ bgPc' = "group"
                            /\ bgResult' = bgResult
                       ELSE /\ bgResult' = Returned(data.context, data.rows)
                            /\ bgPc' = "done"
                            /\ bgInflight' = {}
                            /\ UNCHANGED <<bgPromises, bgFetches>>
  /\ UNCHANGED <<farVars, gateVars, configVars, gcVars>>

\* one fetcher call of the current group resolves
BgSettle(offset) ==
  /\ bgPc = "group"
  /\ offset \in bgInflight
  /\ bgInflight' = bgInflight \ {offset}
  /\ bgPromises' = Settle(bgPromises, offset, FetchPage(bgLimit, offset).rows)
  /\ UNCHANGED <<bgPc, bgI, bgAllRows, bgMeta, bgResult, bgFetches>>
  /\ UNCHANGED <<farVars, gateVars, configVars, gcVars>>

\* `await Promise.all(batchPromises)` resolves: push the rows, step the loop
BgGroupDone ==
  /\ bgPc = "group"
  /\ AllSettled(bgPromises)
  /\ bgI > -MaxPulls
  /\ LET remainingBatches == RemainingBatches(bgMeta.size, bgLimit)
         rows == PushAll(bgAllRows, bgPromises)
         i == bgI + mOptions.concurrencyLimit
         promises == GroupPromises(bgLimit, i, mOptions.concurrencyLimit,
                                   remainingBatches)
     IN /\ bgAllRows' = rows
        /\ bgI' = i
        /\ IF i < remainingBatches
             THEN /\ bgPromises' = promises
                  /\ bgFetches' = bgFetches \o GroupCalls(bgLimit, promises)
                  /\ bgInflight' = bgInflight \cup GroupOffsets(promises)
                  /\ UNCHANGED <<bgPc, bgResult>>
             ELSE /\ bgResult' = Returned(bgMeta.context, rows)
                  /\ bgPc' = "done"
                  /\ UNCHANGED <<bgPromises, bgFetches, bgInflight>>
  /\ UNCHANGED bgMeta
  /\ UNCHANGED <<farVars, gateVars, configVars, gcVars>>

\* A fetcher call rejects: `await fetcher(limit, 0)` throws, or Promise.all
\* rejects with the first rejection; batchGet catches nothing and rejects. Its
\* locals are gone with it; the answers of the other calls are dropped.
BgFail(offset) ==
  /\ bgPc \in {"page0", "group"}
  /\ offset \in bgInflight
  /\ bgPc' = "failed"
  /\ bgResult' = ThrownBy(PageError(offset))
  /\ bgInflight' = {}
  /\ bgPromises' = <<>>
  /\ bgAllRows' = <<>>
  /\ UNCHANGED <<bgI, bgMeta, bgFetches>>
  /\ UNCHANGED <<farVars, gateVars, configVars, gcVars>>

\* ---- getChunks of token-bucket.ts and its consumer

\* the read of moysklad.ts has returned, or it runs a group loop whose index
\* does not advance
BgOver == bgPc = "done" \/ (bgPc = "group" /\ mOptions.concurrencyLimit < 1)

\* the consumer's first next(): the generator body starts, `await fetcher(limit, 0)`
GcFirstPull ==
  /\ BgOver
  /\ gcPc = "start"
  /\ pulls' = pulls + 1
  /\ gcPc' = "page0"
  /\ gcFetches' = <<FetchCall(gcLimit, 0)>>
  /\ gcInflight' = {0}
  /\ UNCHANGED <<gcI, gcPromises, gcMeta, chunks, stopped, acc, tResult>>
  /\ UNCHANGED <<farVars, gateVars, configVars, bgVars>>

\* page 0 arrives: `yield { context, rows: data.rows }`; the consumer receives
\* the chunk and runs its loop body
GcPage0 ==
  /\ gcPc = "page0"
  /\ LET data == FetchPage(gcLimit, 0)
         chunk == [context |-> data.context, rows |-> data.rows]
     IN /\ gcMeta' = [size |-> data.meta.size, context |-> data.context]
        /\ chunks' = Append(chunks, chunk)
        /\ acc' = Accumulate(acc, chunk)
  /\ gcInflight' = {}
  /\ gcPc' = "yield0"
  /\ UNCHANGED <<gcI, gcPromises, gcFetches, pulls, stopped, tResult>>
  /\ UNCHANGED <<farVars, gateVars, configVars, bgVars>>

\* next() after a yield: the generator goes on to its return or to the next group
GcPull ==
  /\ gcPc \in {"yield0", "yield"}
  /\ pulls < MaxPulls
  /\ pulls' = pulls + 1
  /\ LET remainingBatches == RemainingBatches(gcMeta.size, gcLimit)
         i == IF gcPc = "yield0" THEN 0 ELSE gcI + tOptions.concurrencyLimit
         promises == GroupPromises(gcLimit, i, tOptions.concurrencyLimit,
                                   remainingBatches)
     IN IF (gcPc = "yield0" /\ SinglePage(gcMeta.size, gcLimit))
           \/ ~(i < remainingBatches)
          THEN /\ gcPc' = "done"
               /\ tResult' = Finish(acc)
               /\ UNCHANGED <<gcI, gcPromises, gcFetches, gcInflight>>
          ELSE /\ gcPc' = "group"
               /\ gcI' = i
               /\ gcPromises' = promises
               /\ gcFetches' = gcFetches \o GroupCalls(gcLimit, promises)
               /\ gcInflight' = gcInflight \cup GroupOffsets(promises)
               /\ tResult' = tResult
  /\ UNCHANGED <<gcMeta, chunks, stopped, acc>>
  /\ UNCHANGED <<farVars, gateVars, configVars, bgVars>>

\* one fetcher call of the current group resolves
GcSettle(offset) ==
  /\ gcPc = "group"
  /\ offset \in gcInflight
  /\ gcInflight' = gcInflight \ {offset}
  /\ gcPromises' = Settle(gcPromises, offset, FetchPage(gcLimit, offset).rows)
  /\ UNCHANGED <<gcPc, gcI, gcMeta, gcFetches, chunks, pulls, stopped, acc, tResult>>
  /\ UNCHANGED <<farVars, gateVars, configVars, bgVars>>

\* `await Promise.all(...)` resolves: `yield { context, rows: results.flat() }`
GcGroupDone ==
  /\ gcPc = "group"
  /\ AllSettled(gcPromises)
  /\ LET chunk == [context |-> gcMeta.context, rows |-> Flat(gcPromises)]
     IN /\ chunks' = Append(chunks, chunk)
        /\ acc' = Accumulate(acc, chunk)
  /\ gcPc' = "yield"
  /\ UNCHANGED <<gcI, gcPromises, gcInflight, gcMeta, gcFetches, pulls, stopped, tResult>>
  /\ UNCHANGED <<farVars, gateVars, configVars, bgVars>>

\* A fetcher call rejects: the await inside the generator throws, next()
\* rejects, the for-await loop of the consumer (batchGet) throws: no chunk is
\* yielded for the group and the generator is finished.
GcFail(offset) ==
  /\ gcPc \in {"page0", "group"}
  /\ offset \in gcInflight
  /\ gcPc' = "failed"
  /\ tResult' = ThrownBy(PageError(offset))
  /\ gcInflight' = {}
  /\ gcPromises' = <<>>
  /\ UNCHANGED <<gcI, gcMeta, gcFetches, chunks, pulls, stopped, acc>>
  /\ UNCHANGED <<farVars, gateVars, configVars, bgVars>>

\* the consumer leaves its for-await loop by break: the generator is returned
GcBreak ==
  /\ gcPc \in {"yield0", "yield"}
  /\ stopped' = TRUE
  /\ gcPc' = "done"
  /\ UNCHANGED <<gcI, gcPromises, gcInflight, gcMeta, gcFetches, chunks, pulls, acc, tResult>>
  /\ UNCHANGED <<farVars, gateVars, configVars, bgVars>>

\* A row is added to or removed from the end of the collection, or the
\* collection is emptied, while a batch read is between its pages, once during
\* the read.
CollectionChanges(s) ==
  /\ \/ bgPc = "group" /\ totalSize = bgMeta.size
     \/ gcPc \in {"yield0", "group", "yield"} /\ totalSize = gcMeta.size
  /\ s # totalSize
  /\ totalSize' = s
  /\ UNCHANGED <<requested, hasExpand, withContext, mOptions, tOptions>>
  /\ UNCHANGED <<farVars, gateVars, bgVars, gcVars>>

PagerNext ==
  \/ BgStart
  \/ BgPage0
  \/ \E o \in bgInflight : BgSettle(o)
  \/ BgGroupDone
  \/ \E o \in bgInflight : BgFail(o)
  \/ GcFirstPull
  \/ GcPage0
  \/ GcPull
  \/ \E o \in gcInflight : GcSettle(o)
  \/ GcGroupDone
  \/ \E o \in gcInflight : GcFail(o)
  \/ GcBreak

InitPager == GateInit /\ PagerInit /\ ExecIdle /\ QuotaIdle /\ InstIdle /\ BucketIdle

SpecPager == InitPager /\ [][PagerNext]_vars

InitLoop == GateInit /\ LoopInit /\ ExecIdle /\ QuotaIdle /\ InstIdle /\ BucketIdle

SpecLoop == InitLoop /\ [][PagerNext]_vars

InitBare == GateInit /\ BareInit /\ ExecIdle /\ QuotaIdle /\ InstIdle /\ BucketIdle

SpecBare == InitBare /\ [][PagerNext]_vars

StaleNext ==
  \/ PagerNext
  \/ \E s \in {0, totalSize - 1, totalSize + 1} \cap 0..MaxSize : CollectionChanges(s)

InitStale == GateInit /\ PagerInit /\ ExecIdle /\ QuotaIdle /\ InstIdle /\ BucketIdle

BucketNext ==
  \/ \E k \in Callers, weight \in BucketWeights : BucketCall(k, weight)
  \/ \E k \in Callers : BucketEnter(k)
  \/ \E k \in Callers : BucketWake(k)
  \/ \E in \in SyncInputs(bNow) : BucketSync(in)
  \/ BucketElapse

InitBucket ==
  /\ GateInit /\ ConfigInit(DefaultOptions, FALSE, 0) /\ PagerIdle /\ ExecIdle
  /\ QuotaIdle /\ InstIdle /\ BucketInit

SpecBucket == InitBucket /\ [][BucketNext]_vars

\* consume() calls and the clock alone, sync() never called, on a small bucket
BudgetNext ==
  \/ \E k \in Callers, weight \in BucketWeights : BucketCall(k, weight)
  \/ \E k \in Callers : BucketEnter(k)
  \/ \E k \in Callers : BucketWake(k)
  \/ BucketElapse

InitBudget ==
  /\ GateInit /\ ConfigInit(DefaultOptions, FALSE, 0) /\ PagerIdle /\ ExecIdle
  /\ QuotaIdle /\ InstIdle /\ BudgetInit

SpecBudget == InitBudget /\ [][BudgetNext]_vars

\* The event loop runs: the continuation of a settled `await previous` runs
\* and the setTimeout of consume() fires, which also moves the clock on.
SpecBudgetFair ==
  SpecBudget /\ WF_vars(\E k \in Callers : BucketEnter(k) \/ BucketWake(k))

SpecStale == InitStale /\ [][StaleNext]_vars

\* ==================================================================== specs

GateNext ==
  \/ \E r \in Requests : Call(r)
  \/ \E r \in Requests : Enter(r)
  \/ \E r \in Requests : WakeSlot(r)
  \/ \E r \in Requests, s \in Statuses : HttpRespond(r, s)
  \/ \E r \in Requests : HttpFail(r)
  \/ \E r \in Requests : Resume(r)
  \/ \E r \in Requests : RetryFire(r)
  \/ \E r \in Requests : HandleErrorThrows(r)

InitGate ==
  /\ GateInit /\ ConfigInit(DefaultOptions, FALSE, 0) /\ PagerIdle /\ ExecIdle
  /\ QuotaIdle /\ InstIdle /\ BucketIdle

SpecGate == InitGate /\ [][GateNext]_vars

\* The event loop does not stop while a task can run: a due timer of
\* waitForParallelSlot or of the 429 delay fires, a queued continuation runs,
\* a call that can be made is made and the server settles every HTTP call. The
\* 429 answers of one behaviour are finitely many (Gate429).
SpecGateFair == SpecGate /\ WF_vars(GateNext)

ExecNext ==
  \/ \E a \in Args : ExecRequest(a)
  \/ \E response \in Responses(now) : ExecRespond(response)
  \/ \E e \in TransportErrors : ExecFail(e)
  \/ ExecClassify
  \/ ExecTimerFire
  \/ ExecHandleError
  \/ ExecElapse

InitExec ==
  /\ GateInit /\ ConfigInit(DefaultOptions, FALSE, 0) /\ PagerIdle /\ ExecInit
  /\ QuotaIdle /\ InstIdle /\ BucketIdle

SpecExec == InitExec /\ [][ExecNext]_vars

QuotaNext ==
  \/ \E auth \in Auths : QuotaConstruct(auth)
  \/ QuotaDayPasses

InitQuota ==
  /\ GateInit /\ ConfigInit(DefaultOptions, FALSE, 0) /\ PagerIdle /\ ExecIdle
  /\ QuotaIdle /\ InstIdle /\ BucketIdle

SpecQuota == InitQuota /\ [][QuotaNext]_vars

InstNext ==
  \/ \E i \in Instances : InstRequest(i)
  \/ \E i \in Instances, response \in InstResponses(iNow) : InstRespond(i, response)
  \/ \E i \in Instances : InstFail(i)
  \/ \E i \in Instances : InstClassify(i)
  \/ \E i \in Instances : InstTimerFire(i)
  \/ InstElapse

InitInst ==
  /\ GateInit /\ ConfigInit(DefaultOptions, FALSE, 0) /\ PagerIdle /\ ExecIdle
  /\ QuotaIdle /\ InstInit /\ BucketIdle

SpecInst == InitInst /\ [][InstNext]_vars

\* ------------------------------------------------------------------ claims

\* C1: the in-flight counter rateLimitState.concurrent never exceeds
\* parallelRequestLimit, for every interleaving of request() calls.
C1_ConcurrentWithinLimit == concurrent <= parallelRequestLimit

\* C2: every request() call gives its gate slot back on every exit path: the
\* counter is never negative, it counts exactly the calls between their
\* increment and their finally, and it is 0 whenever no call is outstanding.
C2_SlotReleased ==
  /\ concurrent >= 0
  /\ concurrent = Cardinality({r \in Requests : pc[r] \in Holding})
  /\ (\A r \in Requests : ~Outstanding(r)) => concurrent = 0

\* C2 witness: every call has ended, by a returned response, by an API error
\* and by a transport error, one of them after a 429 retry, and the counter is 0.
C2_Witness ==
  /\ \A r \in Requests : pc[r] = "done"
  /\ \E r \in Requests : outcome[r] = "ok"
  /\ \E r \in Requests : outcome[r] = "apiError"
  /\ \E r \in Requests : outcome[r] = "transportError"
  /\ served429 > 0
  /\ concurrent = 0

\* ---- notions the paginator claims are stated in

\* the rows lo .. hi-1 of the collection, in ascending order
RowsRange(lo, hi) == [k \in 1..(hi - lo) |-> lo + k - 1]

\* the page limit of the query: expandLimit with an expansion, else limit
QueryLimit == IF hasExpand THEN requested.expandLimit ELSE requested.limit

\* ceil((totalSize - limit) / limit): the least n >= 0 with n * limit >= totalSize - limit
FurtherPages ==
  CHOOSE n \in 0..totalSize :
    /\ n * QueryLimit >= totalSize - QueryLimit
    /\ n > 0 => (n - 1) * QueryLimit < totalSize - QueryLimit

\* the context that came with page 0
Page0Context == [employee |-> "meta", page |-> 0]

RECURSIVE ConcatChunks(_, _)
ConcatChunks(cs, k) ==
  IF k > Len(cs) THEN <<>> ELSE cs[k].rows \o ConcatChunks(cs, k + 1)

\* the group a fetch belongs to: 0 for page 0, then groups of c pages
GroupOf(offset, limit, c) ==
  IF offset = 0 THEN 0 ELSE 1 + ((offset \div limit) - 1) \div c

\* the calls are page 0 and the further pages, each once, in ascending order,
\* and their ranges cover every row exactly once
Covering(calls) ==
  /\ Len(calls) = 1 + FurtherPages
  /\ \A k \in 1..Len(calls) : calls[k] = FetchCall(QueryLimit, (k - 1) * QueryLimit)
  /\ \A row \in 0..(totalSize - 1) :
       Cardinality({k \in 1..Len(calls) :
                      calls[k].offset <= row /\ row < calls[k].offset + calls[k].limit}) = 1

\* at most c fetches are outstanding, page 0 is outstanding alone, and no fetch
\* of a later group was made while one of an earlier group is outstanding
Barrier(calls, inflight, limit, c) ==
  /\ Cardinality(inflight) <= c
  /\ 0 \in inflight => Len(calls) = 1
  /\ \A o \in inflight, k \in 1..Len(calls) :
       GroupOf(calls[k].offset, limit, c) <= GroupOf(o, limit, c)

BatchGetDone == bgPc = "done"
ChunksDone == gcPc = "done" /\ ~stopped

\* C3: getChunks run to completion yields, chunk after chunk, exactly the rows
\* batchGet returns for the same query on the unchanged collection, in the same
\* order, and both carry the context of page 0.
C3_StreamEqualsBatch ==
  (BatchGetDone /\ ChunksDone) =>
     /\ ConcatChunks(chunks, 1) = bgResult.rows
     /\ tResult.status = "returned" /\ bgResult.status = "returned"
     /\ tResult.rows = bgResult.rows
     /\ bgResult.context = Page0Context
     /\ tResult.context = Page0Context
     /\ \A k \in 1..Len(chunks) : chunks[k].context = Page0Context

\* C3 witness: both paths ran to completion over several groups.
C3_Witness ==
  /\ BatchGetDone /\ ChunksDone
  /\ Len(chunks) >= 3
  /\ totalSize >= 5

\* C4: for every completion order inside a group, batchGet returns each of the
\* rows 0..totalSize-1 exactly once, in ascending order.
C4_NoDuplicateNoMissing ==
  /\ BatchGetDone => bgResult.rows = RowsRange(0, totalSize)
  /\ ChunksDone => tResult.rows = RowsRange(0, totalSize)

\* C4 witness: inside a group a later page has completed before an earlier one.
C4_Witness ==
  /\ bgPc = "group"
  /\ \E k, m \in 1..Len(bgPromises) :
       k < m /\ ~bgPromises[k].done /\ bgPromises[m].done

\* C5: when the collection has at most limit rows (none included), exactly one
\* page is fetched, at offset 0, and batchGet returns the rows of that page.
C5_SinglePage ==
  totalSize <= QueryLimit =>
     /\ Len(bgFetches) <= 1 /\ Len(gcFetches) <= 1
     /\ BatchGetDone =>
          /\ bgFetches = <<FetchCall(QueryLimit, 0)>>
          /\ bgResult = Returned(Page0Context, RowsRange(0, totalSize))
     /\ gcPc = "done" => gcFetches = <<FetchCall(QueryLimit, 0)>>
     /\ ChunksDone => tResult = Returned(Page0Context, RowsRange(0, totalSize))

\* C5 witness: 7 rows under the default limit of 1000, both paths finished.
C5_Witness ==
  /\ totalSize = 7 /\ QueryLimit = 1000
  /\ BatchGetDone /\ ChunksDone
  /\ Len(bgResult.rows) = 7

\* C6: when the collection has more than limit rows, exactly
\* ceil((totalSize - limit) / limit) further pages are fetched, at the offsets
\* limit, 2*limit, ..., each once with the same limit; the requested ranges are
\* disjoint and cover every row, and the result has totalSize rows.
C6_PageArithmetic ==
  totalSize > QueryLimit =>
     /\ BatchGetDone => Covering(bgFetches) /\ Len(bgResult.rows) = totalSize
     /\ ChunksDone => Covering(gcFetches) /\ Len(tResult.rows) = totalSize

\* C6 witness: 2500 rows, limit 1000, concurrencyLimit 3: three requests at the
\* offsets 0, 1000 and 2000 and 2500 rows.
C6_Witness ==
  /\ totalSize = 2500 /\ QueryLimit = 1000 /\ requested.concurrencyLimit = 3
  /\ BatchGetDone /\ ChunksDone
  /\ bgFetches = <<FetchCall(1000, 0), FetchCall(1000, 1000), FetchCall(1000, 2000)>>
  /\ Len(bgResult.rows) = 2500

\* C7: in one batchGet / getChunks run at most concurrencyLimit page fetches are
\* outstanding, no fetch of a group is started before every fetch of the group
\* before it has completed, and page 0 is fetched alone.
C7_GroupBarrier ==
  /\ Barrier(bgFetches, bgInflight, bgLimit, mOptions.concurrencyLimit)
  /\ Barrier(gcFetches, gcInflight, gcLimit, tOptions.concurrencyLimit)

\* C7 witness: a second group is outstanding in full.
C7_Witness ==
  /\ bgPc = "group" /\ bgI > 0
  /\ mOptions.concurrencyLimit >= 2
  /\ Cardinality(bgInflight) = mOptions.concurrencyLimit

\* C8: whatever concurrencyLimit the caller passes, a paginator group never
\* holds more than 5 page fetches.
C8_GroupAtMostFive ==
  /\ Cardinality(bgInflight) <= 5
  /\ Cardinality(gcInflight) <= 5

\* C9: getChunks fetches the pages of a group only after the consumer has
\* pulled for that group's chunk, and once the consumer has stopped no further
\* page is requested.
C9_LazyStreaming ==
  /\ [](\A k \in 1..Len(gcFetches) :
          GroupOf(gcFetches[k].offset, gcLimit, tOptions.concurrencyLimit) < pulls)
  /\ [][stopped => gcFetches' = gcFetches]_vars

\* C9 witness: the consumer stopped after two chunks and pages remain unfetched.
C9_Witness ==
  /\ stopped
  /\ Len(chunks) = 2
  /\ Len(gcFetches) < 1 + FurtherPages

\* C10: the first chunk is page 0, yielded before any other page is requested;
\* every later chunk holds the rows of one whole group in ascending order; run
\* to completion over more than one page, getChunks yields
\* 1 + ceil(ceil((totalSize - limit) / limit) / concurrencyLimit) chunks.
C10_ChunkStructure ==
  LET c == tOptions.concurrencyLimit
      span == c * QueryLimit
  IN /\ gcPc \in {"start", "page0", "yield0"} =>
          \A k \in 1..Len(gcFetches) : gcFetches[k].offset = 0
     /\ Len(chunks) >= 1 =>
          chunks[1].rows = RowsRange(0, Min(QueryLimit, totalSize))
     /\ \A k \in 2..Len(chunks) :
          chunks[k].rows = RowsRange(QueryLimit + (k - 2) * span,
                                     Min(totalSize, QueryLimit + (k - 1) * span))
     /\ (ChunksDone /\ totalSize > QueryLimit) =>
          /\ (Len(chunks) - 1) * c >= FurtherPages
          /\ (Len(chunks) - 2) * c < FurtherPages

\* C10 witness: a finished stream of three or more chunks, one of them made of
\* more than one page.
C10_Witness ==
  /\ ChunksDone
  /\ Len(chunks) >= 3
  /\ \E k \in 1..Len(chunks) : Len(chunks[k].rows) > QueryLimit


\* ======================================================= claims C11 .. C20

\* the status of the last answered HTTP call of the current request() call
LastStatus == IF rLog = <<>> THEN 0 ELSE rLog[Len(rLog)].status

\* C11: throttling is never surfaced. request() never returns a response whose
\* status is 429 and never throws an error made from a 429; while the last
\* answer of the call is a 429 the call has neither returned nor thrown nor
\* gone to the error translation: it sleeps a positive delay that started when
\* the answer came, after which the request is issued again.
C11_ThrottlingNotSurfaced ==
  /\ rResult.kind \in {"returned", "threw"} => rResult.status # 429
  /\ LastStatus = 429 =>
       /\ rPc \in {"hooked", "retrySleep"}
       /\ rResult = NoOutcome
       /\ rPc = "retrySleep" => rDelay > 0 /\ rTimer = rAnswered + rDelay

\* a call that was throttled, was issued again and returned the 200
C11_Witness ==
  /\ rPc = "done" /\ rResult.kind = "returned" /\ rResult.status = 200
  /\ Len(rLog) >= 2 /\ rLog[1].status = 429


\* the wait the server asked for: Retry-After seconds, 3100 ms without the header
AskedDelay(response) ==
  IF response.retryAfter # Absent THEN response.retryAfter * 1000 ELSE 3100

\* C12: 429 retry delay and identity. After a 429 the executor sleeps
\* Retry-After * 1000 ms, or 3100 ms when the header is absent, counted from
\* the answer; every HTTP call of one request() call carries the endpoint,
\* method, body and query parameters of the first; and a retry is never issued
\* before that delay has elapsed.
C12_RetryDelayAndIdentity ==
  /\ rPc = "retrySleep" =>
       /\ rDelay = AskedDelay(rResponse)
       /\ rTimer = rAnswered + rDelay
  /\ \A k \in 1..Len(rLog) : rLog[k].args = rLog[1].args
  /\ (rPc = "http" /\ Len(rLog) >= 2) => rIssued >= rAnswered + AskedDelay(rResponse)


\* the answers 429 among the HTTP calls of the current request() call
Answers429 == {k \in 1..Len(rLog) : rLog[k].status = 429}

\* C13: no retry ceiling. A request() call run alone returns only the first
\* answer that is not a 429: when it has returned, it has made exactly one HTTP
\* call more than it got 429 answers, all but the last answer were 429 and the
\* returned response is the last one, a 200; and as long as every HTTP call it
\* has made was answered 429 it has neither returned nor thrown, however many
\* there were.
C13_NoRetryCeiling ==
  /\ rResult.kind = "returned" =>
       /\ Len(rLog) = Cardinality(Answers429) + 1
       /\ Answers429 = 1..(Len(rLog) - 1)
       /\ rResult.status = 200 /\ LastStatus = 200
  /\ (rLog # <<>> /\ Answers429 = 1..Len(rLog)) =>
       /\ rResult = NoOutcome
       /\ rPc \in {"hooked", "retrySleep"}

\* a call that got as many 429 answers as the server gives, then a 200
C13_Witness ==
  /\ rResult.kind = "returned"
  /\ Len(rLog) = Max429 + 1
  /\ Cardinality(Answers429) = Max429

\* a status that is neither 2xx nor 429 (nor that of a call not answered yet)
ErrorStatus(status) == status # 0 /\ status # 429 /\ (status < 200 \/ status > 299)

\* C14: a response that is neither 2xx nor 429 is surfaced and never retried.
\* Such an answer is the last HTTP call of its request() call: the call does
\* not return, it ends by throwing the structured error that carries the
\* status of that answer; answered so at its first HTTP call, it has made
\* exactly one.
C14_ErrorsSurfacedNotRetried ==
  \A k \in 1..Len(rLog) :
    ErrorStatus(rLog[k].status) =>
      /\ k = Len(rLog)
      /\ rPc \in {"hooked", "handleError", "done"}
      /\ rResult.kind # "returned"
      /\ rPc = "done" =>
           /\ rResult.kind = "threw"
           /\ rResult.error = "MoyskladApiError"
           /\ rResult.status = rLog[k].status

\* a call answered 500 at its first HTTP call, ended by the structured error
C14_Witness ==
  /\ rPc = "done" /\ Len(rLog) = 1 /\ rLog[1].status = 500
  /\ rResult.kind = "threw" /\ rResult.status = 500

Fetched(calls) == {calls[k].offset : k \in 1..Len(calls)}

\* the first row of the group g of a run with c pages to a group (group 0 is
\* page 0)
GroupStart(g, limit, c) == IF g = 0 THEN 0 ELSE limit + (g - 1) * c * limit

\* C16: paginator error propagation. When a page fetch fails, batchGet (both
\* versions) rejects with the error of a fetch it made and with no rows; the
\* failing fetch belongs to the last group started, so no later group was
\* started; and the chunks getChunks yielded before it threw are those of the
\* groups before the failing one: one chunk a group, holding the rows below
\* the first row of the failing group.
C16_PagerErrorPropagation ==
  /\ bgPc = "failed" =>
       \E o \in Fetched(bgFetches) :
         /\ bgResult.status = "rejected" /\ bgResult.error = PageError(o)
         /\ bgResult.rows = <<>>
         /\ \A q \in Fetched(bgFetches) :
              GroupOf(q, QueryLimit, mOptions.concurrencyLimit)
                <= GroupOf(o, QueryLimit, mOptions.concurrencyLimit)
  /\ gcPc = "failed" =>
       \E o \in Fetched(gcFetches) :
         LET c == tOptions.concurrencyLimit
             g == GroupOf(o, QueryLimit, c)
         IN /\ tResult.status = "rejected" /\ tResult.error = PageError(o)
            /\ tResult.rows = <<>>
            /\ \A q \in Fetched(gcFetches) : GroupOf(q, QueryLimit, c) <= g
            /\ Len(chunks) = g
            /\ ConcatChunks(chunks, 1) = RowsRange(0, GroupStart(g, QueryLimit, c))

\* a failure in the second group of pages, after two chunks were yielded
C16_Witness ==
  /\ gcPc = "failed" /\ Len(chunks) = 2 /\ tResult.error.page > 0
  /\ tOptions.concurrencyLimit = 2


\* C17: admission bound per window. With quota headers on the last response
\* and the window they describe still open, an admission check made when the
\* remaining budget (threshold - requestsUsed) is down to its last unit returns
\* a positive delay, so that no more than threshold requests are admitted with
\* zero delay inside one window.
C17_AdmissionBound ==
  (rAdmit.made /\ rAdmit.inWindow /\ rAdmit.budget <= 1) => rAdmit.delay > 0

\* the quota headers of the response are all there
AllQuota(response) ==
  response.limit # Absent /\ response.remaining # Absent /\ response.reset # Absent

\* C18: header feedback update. When the afterResponse hook of the moysklad.ts
\* client has handled a response with all three quota headers, then if
\* now >= reset the state is requestsUsed = 0 and lastReset = reset, otherwise
\* it is requestsUsed = limit - remaining with lastReset as it was.
C18_HeaderFeedbackUpdate ==
  (client = "moysklad" /\ rPc = "hooked" /\ AllQuota(rResponse)) =>
    IF Sec(rAnswered) >= rResponse.reset
      THEN rateLimitState = [lastReset |-> rResponse.reset, requestsUsed |-> 0]
      ELSE rateLimitState = [lastReset |-> rAtCall.lastReset,
                             requestsUsed |-> rResponse.limit - rResponse.remaining]

\* C19: admission delay value. The delay an admission check returns is 0
\* whenever threshold - requestsUsed > 1; otherwise, in the window that started
\* at lastReset and lasts 3 s, it is the time to the end of that window plus
\* the margin of 100 ms, a positive number.
C19_AdmissionDelayValue ==
  rAdmit.made =>
    /\ rAdmit.budget > 1 => rAdmit.delay = 0
    /\ (rAdmit.budget <= 1 /\ rAdmit.untilEnd > 0) =>
         rAdmit.delay = rAdmit.untilEnd + 100

ThresholdTable == [w \in RequestWeights |->
  IF w = 1 THEN 45 ELSE IF w = 2 THEN 22 ELSE IF w = 3 THEN 15 ELSE 11]

\* C21: for every weight w in 1..4 the per-window request threshold is
\* floor(45 / w), that is 45, 22, 15 and 11; a constructed client has the
\* threshold of its weight.
C21_ThresholdArithmetic ==
  /\ \A w \in RequestWeights : getRateLimitThreshold(w) = ThresholdTable[w]
  /\ qAuth # NoAuth =>
       /\ qWeight \in RequestWeights
       /\ qThreshold = ThresholdTable[qWeight]

C21_Witness == qAuth # NoAuth /\ qWeight = 4 /\ qThreshold = 11

\* a calendar date of 2026 (month counted from 1) in days since 1 January
CalendarDay(month, day) ==
  LET before == [m \in 1..12 |->
        IF m = 1 THEN 0 ELSE IF m = 2 THEN 31 ELSE IF m = 3 THEN 59
        ELSE IF m = 4 THEN 90 ELSE IF m = 5 THEN 120 ELSE IF m = 6 THEN 151
        ELSE IF m = 7 THEN 181 ELSE IF m = 8 THEN 212 ELSE IF m = 9 THEN 243
        ELSE IF m = 10 THEN 273 ELSE IF m = 11 THEN 304 ELSE 334]
  IN before[month] + day - 1

\* the weight the specification gives login/password authentication on a day
WeightOn(date) ==
  IF date < CalendarDay(5, 12) THEN 1
  ELSE IF date < CalendarDay(9, 1) THEN 2
  ELSE IF date < CalendarDay(12, 1) THEN 3
  ELSE 4

\* C22: the request weight of token authentication is 1 at every date; that
\* of login/password authentication is 1 before 12 May 2026, 2 from 12 May
\* 2026, 3 from 1 September 2026 and 4 from 1 December 2026, each boundary
\* date included, and so never decreases with the date.
C22_RequestWeight ==
  /\ qAuth = {"token"} => qWeight = 1
  /\ qAuth = {"login", "password"} => qWeight = WeightOn(qBuilt)
  /\ qAuth # NoAuth =>
       /\ qWeight \in RequestWeights
       /\ qWeight <= getRequestWeight(qAuth, today)

C22_Witness ==
  /\ qAuth = {"login", "password"}
  /\ qBuilt = CalendarDay(12, 1)
  /\ qWeight = 4

\* the steps of one attempt in the order the specification gives them
AttemptOrder == <<"slot", "admission", "http", "headers", "classify">>

\* C23: every attempt of every request takes its steps in the order gate slot,
\* admission by the rate limiter, HTTP call, response headers to the rate
\* limiter, classification; an attempt makes its HTTP call holding a slot.
C23_StepOrder ==
  /\ Len(rSteps) <= Len(AttemptOrder)
  /\ rSteps = SubSeq(AttemptOrder, 1, Len(rSteps))
  /\ rPc = "http" => concurrent >= 1

\* C25: the window accounting of the rate limiter (requestsUsed, lastReset) is
\* written only by the step that reads the response headers (the afterResponse
\* hook); no other step of request() changes it.
C25_SingleMutationPoint ==
  [][rateLimitState' # rateLimitState => (rPc = "http" /\ rPc' = "hooked")]_vars

\* the limiter and gate state of an instance, with its stored response
OwnState(i) == <<StateOf(i), iResponse[i]>>

\* C24: the window start, the weight used and the in-flight count belong to
\* one ApiClient: a step of a request or response on one instance leaves the
\* state of every other instance as it was.
C24_PerInstanceState ==
  [][\A i \in Instances : iActor' # i => OwnState(i)' = OwnState(i)]_vars

C24_Witness ==
  /\ iKind[1] = "moysklad"
  /\ iActor = 1
  /\ iPc[1] = "hooked" /\ iPc[2] = "http"
  /\ StateOf(1).requestsUsed = 10 /\ StateOf(1).concurrent = 1
  /\ StateOf(2).requestsUsed = 0 /\ StateOf(2).concurrent = 1
  /\ iResponse[1] # NoHeaders /\ iResponse[2] = NoHeaders

\* the fetcher calls of a batch read whose page 0 reported the size given
PlanFor(size, limit) ==
  [k \in 1..(IF size <= limit THEN 1 ELSE (size + limit - 1) \div limit) |->
     [limit |-> limit, offset |-> (k - 1) * limit]]

IsPrefix(a, b) == Len(a) <= Len(b) /\ a = SubSeq(b, 1, Len(a))

\* C26: the page fetches and their offsets are those the size reported by
\* page 0 asks for; the sizes of later pages are not looked at, no page is
\* fetched twice and a collection that changed between the pages raises no
\* error.
C26_StaleSizeNotReconciled ==
  /\ bgMeta # NoMeta => IsPrefix(bgFetches, PlanFor(bgMeta.size, bgLimit))
  /\ bgPc = "done" =>
       /\ bgFetches = PlanFor(bgMeta.size, bgLimit)
       /\ bgResult.status = "returned"
  /\ bgPc # "failed" => bgResult.status \in {"none", "returned"}
  /\ gcMeta # NoMeta => IsPrefix(gcFetches, PlanFor(gcMeta.size, gcLimit))
  /\ (gcPc = "done" /\ ~stopped) =>
       /\ gcFetches = PlanFor(gcMeta.size, gcLimit)
       /\ tResult.status = "returned"
  /\ gcPc # "failed" => tResult.status \in {"none", "returned"}

C26_Witness ==
  /\ gcPc = "done" /\ ~stopped
  /\ Len(gcFetches) > 2
  /\ totalSize < gcMeta.size
  /\ Len(bgResult.rows) < bgMeta.size
  /\ Len(tResult.rows) < gcMeta.size

\* C27: at most one consume() call at a time is between passing `await
\* previous` and its release in `finally`, also while that call sleeps waiting
\* for tokens: a call goes past `await previous` only when no other is there.
C27_BucketMutualExclusion ==
  /\ bInside <= 1
  /\ Cardinality({k \in Callers : bPc[k] = "sleeping"}) = bInside

C27_Witness ==
  /\ bInside = 1
  /\ bPc[1] = "done"
  /\ bPc[2] = "sleeping"
  /\ bPc[3] = "await"
  /\ bPrevious[3] = 2
  /\ bucket.tokens < bWeight[2]

\* C28: sync(serverRemaining, serverReset) takes the server as ground truth:
\* after it nextReset = serverReset; when now >= serverReset, tokens =
\* capacity and lastRefill = serverReset; otherwise tokens = serverRemaining
\* and lastRefill = serverReset - windowDuration.
C28_SyncGroundTruth ==
  bLast.op = "sync" =>
    /\ bucket.nextReset = bLast.reset
    /\ IF Sec(bNow) >= bLast.reset
         THEN bucket.tokens = bucket.capacity /\ bucket.lastRefill = bLast.reset
         ELSE /\ bucket.tokens = bLast.remaining
              /\ bucket.lastRefill = bLast.reset - 3

C28_Witness ==
  /\ bLast.op = "sync"
  /\ Sec(bNow) >= bLast.reset
  /\ bLast.remaining = 0
  /\ bucket.tokens = 45
  /\ \E k \in Callers : bPc[k] = "sleeping"

AwaitingSlot == {"granted", "slotSleep"}

\* C30: a logical request holds at most one gate slot at any time, however
\* often it is retried after 429: the slot of the attempt is given back by the
\* time the retry attempt takes one, so the in-flight counter never exceeds
\* the number of logical requests outstanding.
C30_OneSlotPerRequest ==
  /\ concurrent <= Cardinality({r \in Requests : Outstanding(r)})
  /\ concurrent + Cardinality({r \in Requests : pc[r] \in AwaitingSlot})
       = Cardinality({r \in Requests : Outstanding(r)})

C30_Witness ==
  /\ pc[1] = "slotSleep"
  /\ served429 > 0
  /\ concurrent = parallelRequestLimit
  /\ \A r \in Requests : Outstanding(r)

\* ================================================================== C31..C37

\* C31: the server answering 429 only finitely often, every request() call
\* eventually returns or throws, also when parallelRequestLimit calls are
\* answered 429 at the same time: the gate never stays in a state in which
\* every slot is taken and every outstanding call waits for a slot.
C31_Progress == <>(\A r \in Requests : pc[r] = "done")

C31_Witness ==
  /\ concurrent = parallelRequestLimit
  /\ Cardinality({r \in Requests : pc[r] = "retrySleep"}) = parallelRequestLimit
  /\ \E r \in Requests : pc[r] = "slotSleep"

\* the weight taken in the seconds from..(to - 1) by the calls 1..k
RECURSIVE AdmittedBy(_, _, _)
AdmittedBy(k, from, to) ==
  IF k = 0 THEN 0
  ELSE AdmittedBy(k - 1, from, to)
         + (IF bAt[k] # Absent /\ bAt[k] >= from /\ bAt[k] < to
              THEN bWeight[k] ELSE 0)

\* the seconds at which the windows of the bucket begin: the constructor's
\* lastRefill and every windowDuration after it
WindowStarts ==
  {x \in Sec(10000)..Sec(bNow) : (x - Sec(10000)) % bucket.windowDuration = 0}

\* C32: sync() never called, the weight consume() admits within one window of
\* windowDuration seconds is at most the capacity, for any consume() calls and
\* any passage of time.
C32_WindowBudget ==
  \A x \in WindowStarts :
    AdmittedBy(NCallers, x, x + bucket.windowDuration) <= bucket.capacity

\* C33: consume() calls take their tokens and resolve in the order in which
\* they were made: a call has taken its tokens only when every call made
\* before it has, and not in an earlier second than any of those.
C33_FifoAdmission ==
  \A k \in Callers : \A j \in 1..(k - 1) :
    /\ bPc[k] = "done" => bPc[j] = "done"
    /\ bAt[k] # Absent => (bAt[j] # Absent /\ bAt[j] <= bAt[k])

C33_Witness ==
  /\ bPc[1] = "sleeping" /\ bWeight[1] = 4
  /\ bPc[2] = "await" /\ bWeight[2] = 1
  /\ bucket.tokens >= bWeight[2]

\* every sync() call is made with 0 <= serverRemaining <= capacity
SyncWithinCapacity ==
  \A r \in SyncRemaining : 0 <= r /\ r <= bucket.capacity

\* the call k takes its tokens in this step
Takes(k) == bPc[k] # "done" /\ bPc'[k] = "done"

\* C34: the constructor, consume(), refill and sync() with 0 <=
\* serverRemaining <= capacity keep 0 <= tokens <= capacity, and
\* consume(weight) subtracts weight only from tokens >= weight.
C34_TokenBounds ==
  /\ [](SyncWithinCapacity =>
          (0 <= bucket.tokens /\ bucket.tokens <= bucket.capacity))
  /\ [][\A k \in Callers : Takes(k) =>
          /\ refill(bucket, bNow').tokens >= bWeight[k]
          /\ bucket'.tokens = refill(bucket, bNow').tokens - bWeight[k]]_vars

C34_Witness ==
  /\ SyncWithinCapacity
  /\ bLast.op = "sync" /\ bLast.remaining = 35
  /\ bucket.tokens = 35
  /\ \E k \in Callers : bPc[k] = "done" /\ bAt[k] > Sec(10000)
  /\ \E k \in Callers : bPc[k] = "sleeping"

\* the call k was made and asks for more than the bucket holds
Oversized(k) == bPc[k] # "idle" /\ bWeight[k] > bucket.capacity

\* the call k was made, and it and the calls before it ask for at most the
\* capacity
Satisfiable(k) ==
  /\ bPc[k] # "idle"
  /\ \A j \in 1..k : 0 < bWeight[j] /\ bWeight[j] <= bucket.capacity

\* C35: sync() never called and time advancing, a consume(weight) call with
\* 0 < weight <= capacity eventually resolves and has then released the
\* mutex, so each call queued behind it is admitted in its turn; a call with
\* weight > capacity never resolves, and no call made after it ever does.
C35_ConsumeTerminates ==
  /\ [](\A k \in Callers : bPc[k] = "done" => bReleased[k])
  /\ [](\A k \in Callers : Oversized(k) =>
           \A j \in k..NCallers : bPc[j] # "done")
  /\ \A k \in Callers : Satisfiable(k) ~> bPc[k] = "done"

C35_Witness ==
  /\ bucket.capacity = 6
  /\ \A k \in Callers : bPc[k] = "done" /\ bWeight[k] = 4
  /\ bRounds[2] = 2 /\ bAt[2] = 13
  /\ bRounds[3] > 2

\* C36: every page fetch returning, batchGet returns and getChunks finishes
\* after finitely many fetches and chunks, for every concurrencyLimit the
\* constructor takes, zero and negative included: the index of the group loop
\* is strictly greater at every new iteration.
C36_LoopIndexIncreases ==
  [][/\ (gcPc = "yield" /\ gcPc' = "group") => gcI' > gcI
     /\ (bgPc = "group" /\ AllSettled(bgPromises) /\ bgPc' = "group"
           /\ bgVars' # bgVars) => bgI' > bgI]_vars

\* C37: once the fetch of page 0 has succeeded, getChunks has yielded a chunk
\* and the batchGet built on it, run to its end, returns what the batchGet of
\* moysklad.ts returns and does not throw "getChunks returned no chunks", also
\* for a page 0 whose context is absent.
C37_NoChunksErrorUnreachable ==
  (gcMeta # NoMeta /\ ChunksDone) =>
     /\ Len(chunks) >= 1
     /\ tResult.status = "returned"
     /\ BatchGetDone => (tResult.context = bgResult.context
                            /\ tResult.rows = bgResult.rows)
====
